---- MODULE Spec2Model ----
(***************************************************************************)
(* Model of the client-side logic of the POS front end:                    *)
(*   - ProductsPage: category filter isProductInCategory / filteredProducts *)
(*   - NewProductPage: variant matrix generateVariants / updateVariant and  *)
(*     the axis-option handlers that regenerate the variant collection.     *)
(*   - NewSalePage: the cart handlers and the steps of a sale submission.   *)
(*   - ProductsPage pricing modal: updateProportionalPricing.               *)
(*   - ManageCategories / CategoriesPage: the parent-candidate flattening.  *)
(* Each page has its own next-state relation and specification.            *)
(* Strings of the program are TLA+ strings; the JavaScript value undefined  *)
(* and the number NaN are the sentinels Undefined and NaN.  lastHandler     *)
(* records which handler of the form ran last, and whether the variant      *)
(* collection it replaced held fields edited with updateVariant.            *)
(***************************************************************************)
EXTENDS Integers, Sequences, FiniteSets, TLC

VARIABLES categories, products, searchQuery, selectedCategory,
          colorOptions, ramOptions, storageOptions, variants, formValues,
          lastHandler,
          availableProducts, saleSearchQuery, loading, cart, isSubmitting,
          salePc, saleData, sale, receiptRequest, submitToast,
          pricingModal, profitMargin, pricingRequest,
          manageCategories, selectedLevel,
          categoryForm, createCategoryRequest, manageFetchPending,
          renderedCart, specifications, specificationsValue,
          productsLoading, pageFetch,
          reportLoading, overview, dailyReport, monthlyReport,
          selectedDate, selectedMonth, selectedYear, activeTab,
          reportBatches, reportSettled

\* ProductsPage: the component state, and how the two requests of the mount
\* effect have settled (<<>> while a request is in flight).
pageVars == <<categories, products, searchQuery, selectedCategory,
              productsLoading, pageFetch>>
formVars == <<colorOptions, ramOptions, storageOptions, variants, formValues,
              lastHandler>>
\* NewSalePage: the component state and the position of its async handlers.
saleVars == <<availableProducts, saleSearchQuery, loading, cart, isSubmitting,
              salePc, saleData, sale, receiptRequest, submitToast>>
\* ProductsPage pricing modal and the PATCH request it sends.
pricingVars == <<pricingModal, profitMargin, pricingRequest>>
\* ManageCategories / CategoriesPage.
\* categoryForm holds the values of the form (react-hook-form); the page is
\* submitting (isSubmitting) exactly while createCategoryRequest is in flight.
manageVars == <<manageCategories, selectedLevel, categoryForm,
                createCategoryRequest, manageFetchPending>>
\* SalesReportPage: the component state, the load batches in flight, and the
\* batch that settled last.
reportVars == <<reportLoading, overview, dailyReport, monthlyReport,
                selectedDate, selectedMonth, selectedYear, activeTab,
                reportBatches, reportSettled>>
vars == <<categories, products, searchQuery, selectedCategory,
          colorOptions, ramOptions, storageOptions, variants, formValues,
          lastHandler,
          availableProducts, saleSearchQuery, loading, cart, isSubmitting,
          salePc, saleData, sale, receiptRequest, submitToast,
          pricingModal, profitMargin, pricingRequest,
          manageCategories, selectedLevel,
          categoryForm, createCategoryRequest, manageFetchPending,
          renderedCart, specifications, specificationsValue,
          productsLoading, pageFetch,
          reportLoading, overview, dailyReport, monthlyReport,
          selectedDate, selectedMonth, selectedYear, activeTab,
          reportBatches, reportSettled>>
\* The specification rows of a product form and the specifications value of
\* its form data (a function from keys to values).
specVars == <<specifications, specificationsValue>>
\* What the handlers of one page leave alone: the state of the other pages.
notFormVars == <<pageVars, saleVars, pricingVars, manageVars, reportVars,
                 renderedCart, specVars>>
notPageVars == <<formVars, saleVars, pricingVars, manageVars, reportVars,
                 renderedCart, specVars>>
\* renderedCart is the cart of the last render of the sale page, the one the
\* handlers on screen have captured.  A handler leaves it alone; the steps of
\* SaleSpec read the cart itself, each event having been rendered before the
\* next one.
notSaleVars == <<pageVars, formVars, pricingVars, manageVars, reportVars,
                 renderedCart, specVars>>
notPricingVars == <<pageVars, formVars, saleVars, manageVars, reportVars,
                    renderedCart, specVars>>
notManageVars == <<pageVars, formVars, saleVars, pricingVars, reportVars,
                   renderedCart, specVars>>
notReportVars == <<pageVars, formVars, saleVars, pricingVars, manageVars,
                   renderedCart, specVars>>

\* JavaScript undefined (an optional field that is absent).
Undefined == "<undefined>"

\* A numeric form value that was never set (useForm has no default for it).
UndefinedNumber == -2

\* JavaScript NaN, the result of parseFloat / parseInt on an empty input.
NaN == -1

(***************************************************************************)
(* Bounds of the model.                                                    *)
(***************************************************************************)
\* Largest number of category nodes in a loaded tree.
MaxNodes == 4

\* Largest number of variant fields the user overrides between regenerations.
MaxEdits == 1

----------------------------------------------------------------------------
(***************************************************************************)
(* Sequence helpers (Array.prototype.filter / some / includes).            *)
(***************************************************************************)
RECURSIVE SortedSeq(_)
SortedSeq(S) ==
  IF S = {} THEN <<>>
  ELSE LET m == CHOOSE x \in S : \A y \in S : x <= y
       IN <<m>> \o SortedSeq(S \ {m})

Range(s) == {s[i] : i \in DOMAIN s}

\* Array.prototype.includes
ArrayIncludes(s, v) == \E i \in DOMAIN s : s[i] = v

\* Array.prototype.filter(x => x !== v)
RECURSIVE FilterOut(_, _)
FilterOut(s, v) ==
  IF s = <<>> THEN <<>>
  ELSE IF Head(s) # v THEN <<Head(s)>> \o FilterOut(Tail(s), v)
       ELSE FilterOut(Tail(s), v)

----------------------------------------------------------------------------
(***************************************************************************)
(* Strings as character sequences, for toLowerCase() and includes().       *)
(***************************************************************************)
CategoryIds == <<"c1", "c2", "c3", "c4", "c5", "c6">>

\* An id that no loaded category carries.
UnknownId == "zz"

ProductNames == {"Tv", "Pc"}

SearchQueries == {"", "t", "C"}

Chars(s) ==
  CASE s = "" -> <<>>
    [] s = "t" -> <<"t">>
    [] s = "C" -> <<"C">>
    [] s = "Tv" -> <<"T", "v">>
    [] s = "Pc" -> <<"P", "c">>
    [] s = "zz" -> <<"z", "z">>
    [] s = "c1" -> <<"c", "1">>
    [] s = "c2" -> <<"c", "2">>
    [] s = "c3" -> <<"c", "3">>
    [] s = "c4" -> <<"c", "4">>
    [] s = "c5" -> <<"c", "5">>
    [] s = "c6" -> <<"c", "6">>

LowerChar(c) ==
  CASE c = "T" -> "t"
    [] c = "P" -> "p"
    [] c = "C" -> "c"
    [] OTHER -> c

\* String.prototype.toLowerCase
toLowerCase(cs) == [i \in DOMAIN cs |-> LowerChar(cs[i])]

\* String.prototype.includes: q occurs as a contiguous substring of s
StringIncludes(s, q) ==
  \E k \in 0..(Len(s) - Len(q)) : \A i \in 1..Len(q) : s[k + i] = q[i]

----------------------------------------------------------------------------
(***************************************************************************)
(* Category trees (API/types.ts Category) and products.                    *)
(* A forest over nodes 1..n is given by a parent function par with         *)
(* par[k] < k (0 = top level); node k carries the id CategoryIds[k].        *)
(***************************************************************************)
MaxLevel == 3

RECURSIVE DepthOf(_, _)
DepthOf(par, k) == IF par[k] = 0 THEN 1 ELSE 1 + DepthOf(par, par[k])

ParentFns(n) ==
  {par \in [1..n -> 0..n] :
     /\ \A k \in 1..n : par[k] < k
     /\ \A k \in 1..n : DepthOf(par, k) <= MaxLevel}

RECURSIVE BuildList(_, _, _)
BuildNode(par, k, ks) ==
  [id |-> CategoryIds[k],
   name |-> CategoryIds[k],
   level |-> DepthOf(par, k),
   parentId |-> IF par[k] = 0 THEN Undefined ELSE CategoryIds[par[k]],
   subCategories |-> ks]
BuildList(par, n, parent) ==
  LET kids == SortedSeq({k \in 1..n : par[k] = parent})
  IN [i \in DOMAIN kids |->
        BuildNode(par, kids[i], BuildList(par, n, kids[i]))]

CategoryTrees ==
  UNION {{BuildList(par, n, 0) : par \in ParentFns(n)} : n \in 0..MaxNodes}

\* Category references a product may carry.
MainCategoryValues == {"c1", "c2", UnknownId}
SubCategoryValues == {Undefined, "c2", "c3"}
SubSubCategoryValues == {Undefined, "c3", "c4"}

ProductSet ==
  [name : ProductNames,
   mainCategory : MainCategoryValues,
   subCategory : SubCategoryValues,
   subSubCategory : SubSubCategoryValues]

\* Responses of GET /products: no product, or one product.
ProductLists == {<<>>} \cup {<<p>> : p \in ProductSet}

\* Values the category filter is evaluated for.
CategoryIdInputs == {""} \cup {CategoryIds[k] : k \in 1..MaxNodes} \cup {UnknownId}

----------------------------------------------------------------------------
(***************************************************************************)
(* ProductsPage: isProductInCategory and filteredProducts.                 *)
(***************************************************************************)
\* findCategory: depth-first search; <<>> for undefined, <<cat>> when found.
RECURSIVE findCategory(_, _)
findCategory(cats, categoryId) ==
  IF cats = <<>> THEN <<>>
  ELSE LET cat == Head(cats)
       IN IF cat.id = categoryId THEN <<cat>>
          ELSE LET found == findCategory(cat.subCategories, categoryId)
               IN IF found # <<>> THEN found
                  ELSE findCategory(Tail(cats), categoryId)

\* Mutant: only the selected node itself is compared, its descendants are not.
isInHierarchy_NoDescent(product, category) ==
  \/ product.mainCategory = category.id
  \/ product.subCategory = category.id
  \/ product.subSubCategory = category.id

RECURSIVE isInHierarchy(_, _)
isInHierarchy(product, category) ==
  IF product.mainCategory = category.id THEN TRUE
  ELSE IF product.subCategory = category.id THEN TRUE
  ELSE IF product.subSubCategory = category.id THEN TRUE
  ELSE \E i \in DOMAIN category.subCategories :
         isInHierarchy(product, category.subCategories[i])

\* Mutant: a category that is not found does not filter.
isProductInCategory_NotFoundTrue(product, categoryId, cats) ==
  IF categoryId = "" THEN TRUE
  ELSE IF product.mainCategory = categoryId THEN TRUE
  ELSE IF product.subCategory = categoryId THEN TRUE
  ELSE IF product.subSubCategory = categoryId THEN TRUE
  ELSE LET selected == findCategory(cats, categoryId)
       IN IF selected = <<>> THEN TRUE
          ELSE isInHierarchy(product, selected[1])

\* Mutant: the direct comparisons with the product's fields are missing.
isProductInCategory_NoDirect(product, categoryId, cats) ==
  IF categoryId = "" THEN TRUE
  ELSE LET selected == findCategory(cats, categoryId)
       IN IF selected = <<>> THEN FALSE
          ELSE isInHierarchy(product, selected[1])

\* Mutant: the empty categoryId is looked up like any other.
isProductInCategory_NoEmpty(product, categoryId, cats) ==
  IF product.mainCategory = categoryId THEN TRUE
  ELSE IF product.subCategory = categoryId THEN TRUE
  ELSE IF product.subSubCategory = categoryId THEN TRUE
  ELSE LET selected == findCategory(cats, categoryId)
       IN IF selected = <<>> THEN FALSE
          ELSE isInHierarchy(product, selected[1])

isProductInCategory(product, categoryId, cats) ==
  IF categoryId = "" THEN TRUE
  ELSE IF product.mainCategory = categoryId THEN TRUE
  ELSE IF product.subCategory = categoryId THEN TRUE
  ELSE IF product.subSubCategory = categoryId THEN TRUE
  ELSE LET selected == findCategory(cats, categoryId)
       IN IF selected = <<>> THEN FALSE
          ELSE isInHierarchy(product, selected[1])

matchesSearch(product, query) ==
  \/ StringIncludes(toLowerCase(Chars(product.name)), toLowerCase(Chars(query)))
  \/ StringIncludes(toLowerCase(Chars(product.mainCategory)),
                    toLowerCase(Chars(query)))

RECURSIVE filterProducts(_, _, _, _)
filterProducts(ps, query, categoryId, cats) ==
  IF ps = <<>> THEN <<>>
  ELSE LET rest == filterProducts(Tail(ps), query, categoryId, cats)
       IN IF matchesSearch(Head(ps), query)
             /\ isProductInCategory(Head(ps), categoryId, cats)
          THEN <<Head(ps)>> \o rest
          ELSE rest

filteredProducts == filterProducts(products, searchQuery, selectedCategory, categories)

----------------------------------------------------------------------------
(***************************************************************************)
(* NewProductPage: variant matrix.                                         *)
(***************************************************************************)
\* Answers of prompt(): null (cancelled), the empty string, or a value.
Null == "<null>"
ColorInputs == {Null, "", "Red", "Blue"}
RamInputs == {Null, "", "8GB", "16GB"}
StorageInputs == {Null, "", "128GB"}

\* Values typed into the form-level price inputs (parseFloat of the text).
BasePriceInputs == {2}
PurchasedPriceInputs == {1}
SellingPriceInputs == {0, 3}

\* Values typed into a variant row (parseFloat / parseInt of the text).
VariantFields == {"purchasedPrice", "sellingPrice", "stock"}
VariantInputs == {NaN, 5}

\* JavaScript a || b on numbers: undefined, NaN and 0 are falsy.
OrElse(a, b) == IF a = UndefinedNumber \/ a = NaN \/ a = 0 THEN b ELSE a

\* JavaScript truthiness of an optional string.
Truthy(s) == s # Undefined /\ s # Null /\ s # ""

RECURSIVE ConcatAll(_)
ConcatAll(ss) == IF ss = <<>> THEN <<>> ELSE Head(ss) \o ConcatAll(Tail(ss))

\* Array.prototype.join
RECURSIVE Join(_, _)
Join(parts, sep) ==
  IF parts = <<>> THEN ""
  ELSE IF Len(parts) = 1 THEN parts[1]
  ELSE parts[1] \o sep \o Join(Tail(parts), sep)

\* Mutant: the tags are joined in ram, color, storage order.
variantId_RamFirst(color, ram, storage) ==
  LET tags == (IF Truthy(ram) THEN <<"ram-" \o ram>> ELSE <<>>)
              \o (IF Truthy(color) THEN <<"color-" \o color>> ELSE <<>>)
              \o (IF Truthy(storage) THEN <<"storage-" \o storage>> ELSE <<>>)
       joined == Join(tags, "-")
  IN IF joined = "" THEN "default" ELSE joined

\* [color && ..., ram && ..., storage && ...].filter(Boolean).join('-') || 'default'
variantId(color, ram, storage) ==
  LET tags == (IF Truthy(color) THEN <<"color-" \o color>> ELSE <<>>)
              \o (IF Truthy(ram) THEN <<"ram-" \o ram>> ELSE <<>>)
              \o (IF Truthy(storage) THEN <<"storage-" \o storage>> ELSE <<>>)
       joined == Join(tags, "-")
  IN IF joined = "" THEN "default" ELSE joined

addVariant(color, ram, storage, purchasedPrice, sellingPrice) ==
  [id |-> variantId(color, ram, storage),
   color |-> color,
   ram |-> ram,
   storage |-> storage,
   purchasedPrice |-> purchasedPrice,
   sellingPrice |-> sellingPrice,
   stock |-> 0]

\* const basePrice / purchasedPrice / sellingPrice of generateVariants
\* Mutant: an unset selling price falls back to the purchased price.
variantDefaults_FallbackPurchased(form) ==
  LET purchasedPrice == OrElse(form.purchasedPrice, 0)
  IN [purchasedPrice |-> purchasedPrice,
      sellingPrice |-> OrElse(form.sellingPrice, purchasedPrice)]

variantDefaults(form) ==
  LET basePrice == OrElse(form.basePrice, 0)
  IN [purchasedPrice |-> OrElse(form.purchasedPrice, 0),
      sellingPrice |-> OrElse(form.sellingPrice, basePrice)]

\* Mutant: with colours but no RAM values the storage axis is ignored.
allCombinations_DropStorage(colors, rams, storages, purchasedPrice, sellingPrice) ==
  LET add(c, r, s) == addVariant(c, r, s, purchasedPrice, sellingPrice)
  IN IF Len(colors) > 0
     THEN ConcatAll([i \in DOMAIN colors |->
            IF Len(rams) > 0
            THEN ConcatAll([j \in DOMAIN rams |->
                   IF Len(storages) > 0
                   THEN [k \in DOMAIN storages |->
                           add(colors[i], rams[j], storages[k])]
                   ELSE <<add(colors[i], rams[j], Undefined)>>])
            ELSE <<add(colors[i], Undefined, Undefined)>>])
     ELSE IF Len(rams) > 0
     THEN ConcatAll([j \in DOMAIN rams |->
            IF Len(storages) > 0
            THEN [k \in DOMAIN storages |->
                    add(Undefined, rams[j], storages[k])]
            ELSE <<add(Undefined, rams[j], Undefined)>>])
     ELSE [k \in DOMAIN storages |-> add(Undefined, Undefined, storages[k])]

\* "Handle all combinations": the nested forEach loops, colours outermost.
allCombinations(colors, rams, storages, purchasedPrice, sellingPrice) ==
  LET add(c, r, s) == addVariant(c, r, s, purchasedPrice, sellingPrice)
  IN IF Len(colors) > 0
     THEN ConcatAll([i \in DOMAIN colors |->
            IF Len(rams) > 0
            THEN ConcatAll([j \in DOMAIN rams |->
                   IF Len(storages) > 0
                   THEN [k \in DOMAIN storages |->
                           add(colors[i], rams[j], storages[k])]
                   ELSE <<add(colors[i], rams[j], Undefined)>>])
            ELSE IF Len(storages) > 0
            THEN [k \in DOMAIN storages |->
                    add(colors[i], Undefined, storages[k])]
            ELSE <<add(colors[i], Undefined, Undefined)>>])
     ELSE IF Len(rams) > 0
     THEN ConcatAll([j \in DOMAIN rams |->
            IF Len(storages) > 0
            THEN [k \in DOMAIN storages |->
                    add(Undefined, rams[j], storages[k])]
            ELSE <<add(Undefined, rams[j], Undefined)>>])
     ELSE [k \in DOMAIN storages |-> add(Undefined, Undefined, storages[k])]

\* Mutant: without axis values nothing is generated.
generateVariants_NoDefault(colors, rams, storages, form) ==
  LET defaults == variantDefaults(form)
  IN allCombinations(colors, rams, storages,
                     defaults.purchasedPrice, defaults.sellingPrice)

generateVariants(colors, rams, storages, form) ==
  LET defaults == variantDefaults(form)
  IN IF Len(colors) = 0 /\ Len(rams) = 0 /\ Len(storages) = 0
     THEN <<[id |-> "default",
             color |-> Undefined,
             ram |-> Undefined,
             storage |-> Undefined,
             purchasedPrice |-> defaults.purchasedPrice,
             sellingPrice |-> defaults.sellingPrice,
             stock |-> 0]>>
     ELSE allCombinations(colors, rams, storages,
                          defaults.purchasedPrice, defaults.sellingPrice)

\* Mutant: every variant is overwritten, whatever its id.
updateVariantList_All(vs, id, field, value) ==
  [i \in DOMAIN vs |-> [vs[i] EXCEPT ![field] = value]]

\* variants.map(v => v.id === variantId ? { ...v, [field]: value } : v)
updateVariantList(vs, id, field, value) ==
  [i \in DOMAIN vs |->
     IF vs[i].id = id THEN [vs[i] EXCEPT ![field] = value] ELSE vs[i]]

\* Number of variant fields that differ from a fresh generation.
EditedCount ==
  LET fresh == generateVariants(colorOptions, ramOptions, storageOptions, formValues)
  IN IF variants = fresh THEN 0
     ELSE Cardinality({<<i, f>> \in (DOMAIN variants) \X VariantFields :
                         variants[i][f] # fresh[i][f]})

\* The handler `op` has run to completion.
Ran(op) == lastHandler' = [op |-> op, discardedEdits |-> op # "edit" /\ EditedCount > 0]

\* Mutant: a variant whose id existed before keeps its edited fields.
Regenerate_Merge(colors, rams, storages, form) ==
  LET generated == generateVariants(colors, rams, storages, form)
      newVariants ==
        [i \in DOMAIN generated |->
           IF \E j \in DOMAIN variants : variants[j].id = generated[i].id
           THEN variants[CHOOSE j \in DOMAIN variants :
                           variants[j].id = generated[i].id]
           ELSE generated[i]]
  IN /\ variants' = newVariants
     /\ formValues' = [form EXCEPT !.variants = newVariants]

\* setVariants(newVariants); setValue('variants', newVariants)
Regenerate(colors, rams, storages, form) ==
  LET newVariants == generateVariants(colors, rams, storages, form)
  IN /\ variants' = newVariants
     /\ formValues' = [form EXCEPT !.variants = newVariants]

addColorOption_NoIncludes(color) ==
  /\ IF Truthy(color)
     THEN LET newColors == Append(colorOptions, color)
          IN /\ Ran("axis")
             /\ colorOptions' = newColors
             /\ Regenerate(newColors, ramOptions, storageOptions,
                           [formValues EXCEPT !.availableOptions.color = newColors])
     ELSE UNCHANGED <<colorOptions, variants, formValues, lastHandler>>
  /\ UNCHANGED <<ramOptions, storageOptions>>
  /\ UNCHANGED notFormVars

\* if (color && !colorOptions.includes(color)) { ... }: nothing else runs.
addColorOption(color) ==
  /\ IF Truthy(color) /\ ~ArrayIncludes(colorOptions, color)
     THEN LET newColors == Append(colorOptions, color)
          IN /\ Ran("axis")
             /\ colorOptions' = newColors
             /\ Regenerate(newColors, ramOptions, storageOptions,
                           [formValues EXCEPT !.availableOptions.color = newColors])
     ELSE UNCHANGED <<colorOptions, variants, formValues, lastHandler>>
  /\ UNCHANGED <<ramOptions, storageOptions>>
  /\ UNCHANGED notFormVars

addRamOption(ram) ==
  /\ IF Truthy(ram) /\ ~ArrayIncludes(ramOptions, ram)
     THEN LET newRamOptions == Append(ramOptions, ram)
          IN /\ Ran("axis")
             /\ ramOptions' = newRamOptions
             /\ Regenerate(colorOptions, newRamOptions, storageOptions,
                           [formValues EXCEPT !.availableOptions.ram = newRamOptions])
     ELSE UNCHANGED <<ramOptions, variants, formValues, lastHandler>>
  /\ UNCHANGED <<colorOptions, storageOptions>>
  /\ UNCHANGED notFormVars

addStorageOption(storage) ==
  /\ IF Truthy(storage) /\ ~ArrayIncludes(storageOptions, storage)
     THEN LET newStorageOptions == Append(storageOptions, storage)
          IN /\ Ran("axis")
             /\ storageOptions' = newStorageOptions
             /\ Regenerate(colorOptions, ramOptions, newStorageOptions,
                           [formValues EXCEPT
                              !.availableOptions.storage = newStorageOptions])
     ELSE UNCHANGED <<storageOptions, variants, formValues, lastHandler>>
  /\ UNCHANGED <<colorOptions, ramOptions>>
  /\ UNCHANGED notFormVars

removeColorOption(color) ==
  LET newColors == FilterOut(colorOptions, color)
  IN /\ Ran("axis")
     /\ colorOptions' = newColors
     /\ Regenerate(newColors, ramOptions, storageOptions,
                   [formValues EXCEPT !.availableOptions.color = newColors])
     /\ UNCHANGED <<ramOptions, storageOptions>>
     /\ UNCHANGED notFormVars

removeRamOption(ram) ==
  LET newRamOptions == FilterOut(ramOptions, ram)
  IN /\ Ran("axis")
     /\ ramOptions' = newRamOptions
     /\ Regenerate(colorOptions, newRamOptions, storageOptions,
                   [formValues EXCEPT !.availableOptions.ram = newRamOptions])
     /\ UNCHANGED <<colorOptions, storageOptions>>
     /\ UNCHANGED notFormVars

removeStorageOption(storage) ==
  LET newStorageOptions == FilterOut(storageOptions, storage)
  IN /\ Ran("axis")
     /\ storageOptions' = newStorageOptions
     /\ Regenerate(colorOptions, ramOptions, newStorageOptions,
                   [formValues EXCEPT
                      !.availableOptions.storage = newStorageOptions])
     /\ UNCHANGED <<colorOptions, ramOptions>>
     /\ UNCHANGED notFormVars

\* onChange of the base / purchased / selling price inputs.
changePrice(field, value) ==
  /\ Ran("price")
  /\ Regenerate(colorOptions, ramOptions, storageOptions,
                [formValues EXCEPT ![field] = value])
  /\ UNCHANGED <<colorOptions, ramOptions, storageOptions>>
  /\ UNCHANGED notFormVars

updateVariant(id, field, value) ==
  /\ Ran("edit")
  /\ variants' = updateVariantList(variants, id, field, value)
  /\ formValues' = [formValues EXCEPT !.variants = variants']
  /\ UNCHANGED <<colorOptions, ramOptions, storageOptions>>
  /\ UNCHANGED notFormVars

----------------------------------------------------------------------------
(***************************************************************************)
(* NewProductPage and EditProductPage: the specification rows.  Both pages  *)
(* have the same three handlers.                                            *)
(***************************************************************************)
\* A cap on the rows.
MaxRows == 2

\* newSpecs.reduce(...): the rows with a key and a value, a later row of a
\* key replacing an earlier one.
specsObject(newSpecs) ==
  LET filled == {i \in DOMAIN newSpecs :
                   Truthy(newSpecs[i].key) /\ Truthy(newSpecs[i].value)}
  IN [k \in {newSpecs[i].key : i \in filled} |->
        newSpecs[CHOOSE i \in filled :
                   /\ newSpecs[i].key = k
                   /\ \A j \in filled : newSpecs[j].key = k => j <= i].value]

addSpecification ==
  /\ Len(specifications) < MaxRows
  /\ specifications' = Append(specifications, [key |-> "", value |-> ""])
  /\ UNCHANGED specificationsValue
  /\ UNCHANGED <<pageVars, formVars, saleVars, pricingVars, manageVars, reportVars,
                 renderedCart>>

\* specifications.filter((_, i) => i !== index); setValue is not called.
removeSpecification(index) ==
  /\ specifications' = [i \in 1..(Len(specifications) - 1) |->
                          IF i < index THEN specifications[i]
                          ELSE specifications[i + 1]]
  /\ UNCHANGED specificationsValue
  /\ UNCHANGED <<pageVars, formVars, saleVars, pricingVars, manageVars, reportVars,
                 renderedCart>>

handleSpecificationChange(index, field, value) ==
  LET newSpecs == [specifications EXCEPT ![index][field] = value]
  IN /\ specifications' = newSpecs
     /\ specificationsValue' = specsObject(newSpecs)
     /\ UNCHANGED <<pageVars, formVars, saleVars, pricingVars, manageVars,
                    reportVars, renderedCart>>

----------------------------------------------------------------------------
(***************************************************************************)
(* ProductsPage actions.                                                   *)
(***************************************************************************)
\* A request in flight, and the two ways it settles.
Pending == <<>>
Resolved(data) == <<[ok |-> TRUE, data |-> data]>>
Rejected == <<[ok |-> FALSE, data |-> <<>>]>>

fetchCategories_ResetsProducts(data) ==
  /\ pageFetch.fetchCategories = Pending
  /\ categories' = data
  /\ products' = <<>>
  /\ pageFetch' = [pageFetch EXCEPT !.fetchCategories = Resolved(data)]
  /\ UNCHANGED <<searchQuery, selectedCategory, productsLoading>>
  /\ UNCHANGED notPageVars

\* fetchCategories, called once on mount, resolved: setCategories(data).
\* Until then the tree is empty.
fetchCategories(data) ==
  /\ pageFetch.fetchCategories = Pending
  /\ categories' = data
  /\ pageFetch' = [pageFetch EXCEPT !.fetchCategories = Resolved(data)]
  /\ UNCHANGED <<products, searchQuery, selectedCategory, productsLoading>>
  /\ UNCHANGED notPageVars

\* fetchCategories rejected: the catch block shows a toast.
fetchCategoriesRejected ==
  /\ pageFetch.fetchCategories = Pending
  /\ pageFetch' = [pageFetch EXCEPT !.fetchCategories = Rejected]
  /\ UNCHANGED <<categories, products, searchQuery, selectedCategory,
                 productsLoading>>
  /\ UNCHANGED notPageVars

\* fetchProducts resolved: setProducts(data), then finally setLoading(false).
fetchProducts(data) ==
  /\ pageFetch.fetchProducts = Pending
  /\ products' = data
  /\ productsLoading' = FALSE
  /\ pageFetch' = [pageFetch EXCEPT !.fetchProducts = Resolved(data)]
  /\ UNCHANGED <<categories, searchQuery, selectedCategory>>
  /\ UNCHANGED notPageVars

fetchProductsRejected_NoFinally ==
  /\ pageFetch.fetchProducts = Pending
  /\ pageFetch' = [pageFetch EXCEPT !.fetchProducts = Rejected]
  /\ UNCHANGED <<categories, products, searchQuery, selectedCategory,
                 productsLoading>>
  /\ UNCHANGED notPageVars

\* fetchProducts rejected: a toast, then finally setLoading(false).
fetchProductsRejected ==
  /\ pageFetch.fetchProducts = Pending
  /\ productsLoading' = FALSE
  /\ pageFetch' = [pageFetch EXCEPT !.fetchProducts = Rejected]
  /\ UNCHANGED <<categories, products, searchQuery, selectedCategory>>
  /\ UNCHANGED notPageVars

setSearchQuery(value) ==
  /\ searchQuery' = value
  /\ UNCHANGED <<categories, products, selectedCategory, productsLoading, pageFetch>>
  /\ UNCHANGED notPageVars

\* onChange stores e.target.value as it is; isProductInCategory is defined
\* for every string, also for one that is not the id of a loaded category.
setSelectedCategory(value) ==
  /\ selectedCategory' = value
  /\ UNCHANGED <<categories, products, searchQuery, productsLoading, pageFetch>>
  /\ UNCHANGED notPageVars

----------------------------------------------------------------------------
(***************************************************************************)
(* NewSalePage (src/app/layout.tsx): the cart and the sale submission.      *)
(* JavaScript numbers are integers here, with NaN as its sentinel: every   *)
(* comparison with NaN is false and every sum or product with NaN is NaN.  *)
(***************************************************************************)
JsLt(a, b) == a # NaN /\ b # NaN /\ a < b

JsGt(a, b) == a # NaN /\ b # NaN /\ a > b

JsGe(a, b) == a # NaN /\ b # NaN /\ a >= b

JsAdd(a, b) == IF a = NaN \/ b = NaN THEN NaN ELSE a + b

JsMul(a, b) == IF a = NaN \/ b = NaN THEN NaN ELSE a * b

\* Caps on the lines of the cart and on the quantity of a line, for the
\* calls that are made between two renders.
MaxLines == 2
MaxQuantity == 3

\* The fields of ProductVariant the page reads.
SaleVariant(stock, sellingPrice) == [stock |-> stock, sellingPrice |-> sellingPrice]

\* The products GET /sales/products/available answers with.  One carries its
\* identifier in id, the other in _id; each has one or two variants.
TvVariants == {<<SaleVariant(1, 10)>>, <<SaleVariant(2, 10)>>,
               <<SaleVariant(0, 10), SaleVariant(2, 10)>>}

PcVariants == {<<SaleVariant(3, 5)>>}

TvProducts ==
  {[_id |-> Undefined, id |-> "p1", name |-> "Tv", mainCategory |-> Undefined,
    variants |-> vs] : vs \in TvVariants}

PcProducts ==
  {[_id |-> "p2", id |-> Undefined, name |-> "Pc", mainCategory |-> "c1",
    variants |-> vs] : vs \in PcVariants}

AvailableProductLists ==
  {<<>>} \cup {<<p>> : p \in TvProducts \cup PcProducts}
         \cup {<<p, q>> : p \in TvProducts, q \in PcProducts}

\* What the user types into the product search box.
SaleSearchQueries == {"", "t"}

\* parseInt(e.target.value) of the quantity input of a cart row.
QuantityInputs == {NaN, 0, 1, 2, 3, 4}

\* data.customerName; saleSchema requires at least one character.
CustomerNames == {"Ann"}

\* The sale POST /sales answers with: its identifier is in _id or in id.
SaleResponses == {[_id |-> "s1", id |-> Undefined], [_id |-> Undefined, id |-> "s2"]}

\* product._id || product.id, sale._id || sale.id
IdOf(x) == IF Truthy(x._id) THEN x._id ELSE x.id

\* product.variants.some(v => v.stock > 0)
someInStock(vs) == \E i \in DOMAIN vs : JsGt(vs[i].stock, 0)

\* (s?.toLowerCase() || '').includes(query.toLowerCase())
fieldIncludes(s, query) ==
  LET lowered == IF Truthy(s) THEN toLowerCase(Chars(s)) ELSE <<>>
  IN StringIncludes(lowered, toLowerCase(Chars(query)))

saleFilterProducts(ps, query) ==
  SelectSeq(ps, LAMBDA product :
    /\ someInStock(product.variants)
    /\ \/ fieldIncludes(product.name, query)
       \/ fieldIncludes(product.mainCategory, query))

saleFilteredProducts == saleFilterProducts(availableProducts, saleSearchQuery)

\* cart.find(item => item.productId === productId): <<>> when there is none.
findItem(c, productId) ==
  LET found == {i \in DOMAIN c : c[i].productId = productId}
  IN IF found = {} THEN <<>>
     ELSE <<c[CHOOSE i \in found : \A j \in found : i <= j]>>

\* products.find(p => (p._id || p.id) === productId): <<>> when there is none.
findProduct(ps, productId) ==
  LET found == {i \in DOMAIN ps : IdOf(ps[i]) = productId}
  IN IF found = {} THEN <<>>
     ELSE <<ps[CHOOSE i \in found : \A j \in found : i <= j]>>

\* addToCart reads existingItem and currentQuantity from the cart of the
\* render it was created in (closureCart) and passes setCart an updater that
\* is applied to the cart at that time (prev).
addToCartUpdate(closureCart, prev, product) ==
  LET productId == IdOf(product)
      existingItem == findItem(closureCart, productId)
      currentQuantity == IF existingItem # <<>> THEN existingItem[1].quantity ELSE 0
  IN IF ~Truthy(productId) THEN prev
     ELSE IF product.variants = <<>> THEN prev
     ELSE LET defaultVariant == product.variants[1]
          IN IF JsGe(currentQuantity, defaultVariant.stock) THEN prev
             ELSE IF existingItem # <<>>
                  THEN [i \in DOMAIN prev |->
                          IF prev[i].productId = productId
                          THEN [prev[i] EXCEPT !.quantity = JsAdd(prev[i].quantity, 1)]
                          ELSE prev[i]]
                  ELSE Append(prev, [productId |-> productId,
                                     name |-> product.name,
                                     price |-> defaultVariant.sellingPrice,
                                     quantity |-> 1])

\* addToCart without its stock check.
addToCartList_NoStockCheck(c, product) ==
  LET productId == IdOf(product)
      existingItem == findItem(c, productId)
  IN IF ~Truthy(productId) THEN c
     ELSE IF product.variants = <<>> THEN c
     ELSE IF existingItem # <<>>
          THEN [i \in DOMAIN c |->
                  IF c[i].productId = productId
                  THEN [c[i] EXCEPT !.quantity = JsAdd(c[i].quantity, 1)]
                  ELSE c[i]]
          ELSE Append(c, [productId |-> productId,
                          name |-> product.name,
                          price |-> product.variants[1].sellingPrice,
                          quantity |-> 1])

\* The cart addToCart(product) sets (the cart itself when it returns early).
addToCartList(c, product) == addToCartUpdate(c, c, product)

\* removeFromCart keeping the matching lines instead of the others.
removeFromCartList_KeepMatch(c, productId) ==
  SelectSeq(c, LAMBDA item : item.productId = productId)

\* prev.filter(item => item.productId !== productId)
removeFromCartList(c, productId) ==
  SelectSeq(c, LAMBDA item : item.productId # productId)

\* updateQuantity without its stock check.
updateQuantityList_NoStockCheck(c, ps, productId, quantity) ==
  IF JsLt(quantity, 1) THEN c
  ELSE [i \in DOMAIN c |->
          IF c[i].productId = productId
          THEN [c[i] EXCEPT !.quantity = quantity]
          ELSE c[i]]

\* The cart updateQuantity(productId, quantity) sets.
updateQuantityList(c, ps, productId, quantity) ==
  LET product == findProduct(ps, productId)
      hasDefaultVariant == product # <<>> /\ product[1].variants # <<>>
  IN IF JsLt(quantity, 1) THEN c
     ELSE IF hasDefaultVariant /\ JsGt(quantity, product[1].variants[1].stock) THEN c
     ELSE [i \in DOMAIN c |->
             IF c[i].productId = productId
             THEN [c[i] EXCEPT !.quantity = quantity]
             ELSE c[i]]

\* calculateTotal summing the prices without the quantities.
RECURSIVE reduceTotal_NoQuantity(_, _)
reduceTotal_NoQuantity(c, total) ==
  IF c = <<>> THEN total
  ELSE reduceTotal_NoQuantity(Tail(c), JsAdd(total, Head(c).price))

\* cart.reduce((total, item) => total + item.price * item.quantity, 0)
RECURSIVE reduceTotal(_, _)
reduceTotal(c, total) ==
  IF c = <<>> THEN total
  ELSE reduceTotal(Tail(c), JsAdd(total, JsMul(Head(c).price, Head(c).quantity)))

calculateTotalOf(c) == reduceTotal(c, 0)

calculateTotal == calculateTotalOf(cart)

\* cart.map(item => ({ productId: item.productId, quantity: item.quantity }))
saleItems(c) ==
  [i \in DOMAIN c |-> [productId |-> c[i].productId, quantity |-> c[i].quantity]]

\* The Add button of a listed product; the list is hidden while loading.
addToCart(product) ==
  /\ ~loading
  /\ cart' = addToCartList(cart, product)
  /\ UNCHANGED <<availableProducts, saleSearchQuery, loading, isSubmitting,
                 salePc, saleData, sale, receiptRequest, submitToast>>
  /\ UNCHANGED notSaleVars

\* The Remove button of a cart row.
removeFromCart(productId) ==
  /\ cart' = removeFromCartList(cart, productId)
  /\ UNCHANGED <<availableProducts, saleSearchQuery, loading, isSubmitting,
                 salePc, saleData, sale, receiptRequest, submitToast>>
  /\ UNCHANGED notSaleVars

\* onChange of the quantity input of a cart row.
updateQuantity(productId, quantity) ==
  /\ cart' = updateQuantityList(cart, availableProducts, productId, quantity)
  /\ UNCHANGED <<availableProducts, saleSearchQuery, loading, isSubmitting,
                 salePc, saleData, sale, receiptRequest, submitToast>>
  /\ UNCHANGED notSaleVars

\* addToCart of the last render is called: the handler has captured
\* renderedCart, its updater runs on the cart.
addToCartOfRender(product) ==
  /\ ~loading
  /\ Len(cart) < MaxLines
  /\ \A i \in DOMAIN cart : cart[i].quantity < MaxQuantity
  /\ cart' = addToCartUpdate(renderedCart, cart, product)
  /\ UNCHANGED <<availableProducts, saleSearchQuery, loading, isSubmitting,
                 salePc, saleData, sale, receiptRequest, submitToast>>
  /\ UNCHANGED notSaleVars

\* The page renders again: new handlers capture the cart.
render ==
  /\ renderedCart # cart
  /\ renderedCart' = cart
  /\ UNCHANGED <<pageVars, formVars, saleVars, pricingVars, manageVars, reportVars,
                 specVars>>

setSaleSearchQuery(value) ==
  /\ saleSearchQuery' = value
  /\ UNCHANGED <<availableProducts, loading, cart, isSubmitting,
                 salePc, saleData, sale, receiptRequest, submitToast>>
  /\ UNCHANGED notSaleVars

\* useEffect on mount: fetchAvailableProducts() settles.  salePc = "mount"
\* while its request is in flight.
mountFetchResolved(data) ==
  /\ salePc = "mount"
  /\ availableProducts' = data
  /\ loading' = FALSE
  /\ salePc' = "idle"
  /\ UNCHANGED <<saleSearchQuery, cart, isSubmitting, saleData, sale, receiptRequest,
                 submitToast>>
  /\ UNCHANGED notSaleVars

mountFetchRejected ==
  /\ salePc = "mount"
  /\ loading' = FALSE
  /\ salePc' = "idle"
  /\ UNCHANGED <<availableProducts, saleSearchQuery, cart, isSubmitting,
                 saleData, sale, receiptRequest, submitToast>>
  /\ UNCHANGED notSaleVars

\* onSubmit without its empty-cart check.
onSubmit_NoEmptyCheck(data) ==
  /\ ~isSubmitting
  /\ isSubmitting' = TRUE
  /\ saleData' = <<[items |-> saleItems(cart),
                    customerName |-> IF Truthy(data.customerName)
                                     THEN data.customerName ELSE Undefined]>>
  /\ salePc' = "createSale"
  /\ UNCHANGED <<availableProducts, saleSearchQuery, loading, cart, sale,
                 receiptRequest, submitToast>>
  /\ UNCHANGED notSaleVars

\* handleSubmit(onSubmit), up to the first await.  The submit button is
\* disabled while isSubmitting.  salePc names the request onSubmit awaits;
\* submitToast is the last notification onSubmit raised (a rejection of
\* createSale is reported as 'Failed to complete sale' or by its message).
onSubmit(data) ==
  /\ ~isSubmitting
  /\ IF cart = <<>>
     THEN /\ submitToast' = "Cart is empty"
          /\ UNCHANGED <<isSubmitting, salePc, saleData>>
     ELSE /\ isSubmitting' = TRUE
          /\ UNCHANGED submitToast
          /\ saleData' = <<[items |-> saleItems(cart),
                            customerName |-> IF Truthy(data.customerName)
                                             THEN data.customerName ELSE Undefined]>>
          /\ salePc' = "createSale"
  /\ UNCHANGED <<availableProducts, saleSearchQuery, loading, cart, sale,
                 receiptRequest>>
  /\ UNCHANGED notSaleVars

\* createSale resolves but no receipt is requested.
createSaleResolved_NoReceipt(response) ==
  /\ salePc = "createSale"
  /\ sale' = <<response>>
  /\ salePc' = "getPrintReceipt"
  /\ UNCHANGED <<availableProducts, saleSearchQuery, loading, cart, isSubmitting,
                 saleData, submitToast, receiptRequest>>
  /\ UNCHANGED notSaleVars

\* apiService.createSale resolves: printReceipt(sale._id || sale.id || '')
\* sends GET /sales/<saleId>/receipt/print.
createSaleResolved(response) ==
  /\ salePc = "createSale"
  /\ sale' = <<response>>
  /\ receiptRequest' = <<IF Truthy(IdOf(response)) THEN IdOf(response) ELSE "">>
  /\ salePc' = "getPrintReceipt"
  /\ UNCHANGED <<availableProducts, saleSearchQuery, loading, cart, isSubmitting,
                 saleData, submitToast>>
  /\ UNCHANGED notSaleVars

\* A failure path that restores the cart that was submitted.
createSaleRejected_RestoresCart ==
  /\ salePc = "createSale"
  /\ isSubmitting' = FALSE
  /\ salePc' = "idle"
  /\ saleData' = <<>>
  /\ submitToast' = "Failed to complete sale"
  /\ cart' = SelectSeq(cart, LAMBDA item :
                \E j \in DOMAIN saleData[1].items :
                  saleData[1].items[j].productId = item.productId)
  /\ UNCHANGED <<availableProducts, saleSearchQuery, loading, sale, receiptRequest>>
  /\ UNCHANGED notSaleVars

\* apiService.createSale rejects: catch, then finally setIsSubmitting(false).
createSaleRejected ==
  /\ salePc = "createSale"
  /\ isSubmitting' = FALSE
  /\ salePc' = "idle"
  /\ saleData' = <<>>
  /\ submitToast' = "Failed to complete sale"
  /\ UNCHANGED <<availableProducts, saleSearchQuery, loading, cart, sale,
                 receiptRequest>>
  /\ UNCHANGED notSaleVars

\* getPrintReceipt settles; printReceipt catches its own failure, so onSubmit
\* goes on either way: toast.success, then fetchAvailableProducts() sets
\* loading and sends its GET.
printReceiptSettled(ok) ==
  /\ salePc = "getPrintReceipt"
  /\ submitToast' = "Sale completed successfully"
  /\ loading' = TRUE
  /\ salePc' = "getAvailableProducts"
  /\ UNCHANGED <<availableProducts, saleSearchQuery, cart, isSubmitting,
                 saleData, sale, receiptRequest>>
  /\ UNCHANGED notSaleVars

\* The rest of onSubmit once the refetch has settled: setCart([]) and
\* finally setIsSubmitting(false).  It runs in the same task as the
\* continuation of fetchAvailableProducts.
finishSale ==
  /\ cart' = <<>>
  /\ isSubmitting' = FALSE
  /\ salePc' = "idle"
  /\ saleData' = <<>>
  /\ sale' = <<>>
  /\ receiptRequest' = <<>>

refetchResolved(data) ==
  /\ salePc = "getAvailableProducts"
  /\ availableProducts' = data
  /\ loading' = FALSE
  /\ finishSale
  /\ UNCHANGED <<saleSearchQuery, submitToast>>
  /\ UNCHANGED notSaleVars

\* fetchAvailableProducts catches its own failure.
refetchRejected ==
  /\ salePc = "getAvailableProducts"
  /\ loading' = FALSE
  /\ finishSale
  /\ UNCHANGED <<availableProducts, saleSearchQuery, submitToast>>
  /\ UNCHANGED notSaleVars

----------------------------------------------------------------------------
(***************************************************************************)
(* ProductsPage pricing modal and productsApi.updateProportionalPricing.    *)
(* Prices are counted in hundredths, so that 100.00 is 10000; profit        *)
(* margins are whole percents.                                              *)
(***************************************************************************)
\* Largest number of pricing requests that are pending at a time.
MaxPending == 1

\* product.id || product._id || '' of the row whose pricing button is used.
PricedProductIds == {"p1", "p2"}

\* product.purchasedPrice || 0 of that row, in hundredths.
PurchasedPrices == {0, 10, 333, 10000}

\* Number(e.target.value) of the profit margin input.
ProfitMargins == {-50, 20, 25, 45}

\* Math.round(n / d) for d > 0.  The code rounds a floating-point product:
\* off a tie the result is the nearest integer; on an exact tie the
\* representation error of the product decides between the two neighbours.
mathRound(n, d) ==
  LET q == n \div d
      r == n % d
  IN IF 2 * r < d THEN {q}
     ELSE IF 2 * r > d THEN {q + 1}
     ELSE {q, q + 1}

\* updateProportionalPricing that cuts the selling price off after two
\* decimals instead of rounding it.
updateProportionalPricing_Truncate(id, purchasedPrice, profitMarginArg) ==
  {[method |-> "PATCH",
    path |-> "/products/" \o id,
    body |-> [purchasedPrice |-> purchasedPrice,
              sellingPrice |-> (purchasedPrice * (100 + profitMarginArg)) \div 100]]}

\* The requests updateProportionalPricing(id, purchasedPrice, profitMargin)
\* can hand to makeRequest: sellingPrice = purchasedPrice * (1 + margin/100),
\* then Math.round(sellingPrice * 100) / 100.
updateProportionalPricing(id, purchasedPrice, profitMarginArg) ==
  {[method |-> "PATCH",
    path |-> "/products/" \o id,
    body |-> [purchasedPrice |-> purchasedPrice, sellingPrice |-> rounded]] :
     rounded \in mathRound(purchasedPrice * (100 + profitMarginArg), 100)}

openPricingModal(productId, currentPrice) ==
  /\ pricingModal' = [isOpen |-> TRUE, productId |-> productId,
                      currentPrice |-> currentPrice]
  /\ UNCHANGED <<profitMargin, pricingRequest>>
  /\ UNCHANGED notPricingVars

\* The Cancel button of the modal.
closePricingModal ==
  /\ pricingModal.isOpen
  /\ pricingModal' = [isOpen |-> FALSE, productId |-> "", currentPrice |-> 0]
  /\ UNCHANGED <<profitMargin, pricingRequest>>
  /\ UNCHANGED notPricingVars

setProfitMargin(value) ==
  /\ pricingModal.isOpen
  /\ profitMargin' = value
  /\ UNCHANGED <<pricingModal, pricingRequest>>
  /\ UNCHANGED notPricingVars

\* The Update Pricing button, up to the await: the request is sent.
\* pricingRequest holds the requests that have not settled yet.
handlePricingUpdate ==
  /\ pricingModal.isOpen
  /\ Len(pricingRequest) < MaxPending
  /\ \E request \in updateProportionalPricing(pricingModal.productId,
                                               pricingModal.currentPrice,
                                               profitMargin) :
       pricingRequest' = Append(pricingRequest, request)
  /\ UNCHANGED <<pricingModal, profitMargin>>
  /\ UNCHANGED notPricingVars

\* The PATCH resolves: the modal is closed (the list is then refreshed by
\* fetchProducts).
pricingUpdateResolved ==
  /\ pricingRequest # <<>>
  /\ pricingRequest' = Tail(pricingRequest)
  /\ pricingModal' = [isOpen |-> FALSE, productId |-> "", currentPrice |-> 0]
  /\ UNCHANGED profitMargin
  /\ UNCHANGED notPricingVars

\* The PATCH rejects: only a notification.
pricingUpdateRejected ==
  /\ pricingRequest # <<>>
  /\ pricingRequest' = Tail(pricingRequest)
  /\ UNCHANGED <<pricingModal, profitMargin>>
  /\ UNCHANGED notPricingVars

----------------------------------------------------------------------------
(***************************************************************************)
(* ManageCategories (app/categories/manage/page.tsx) and CategoriesPage     *)
(* (part_002): the parent candidates of the create-category form.  Both    *)
(* components keep the loaded tree and the selected level.                 *)
(***************************************************************************)
\* Largest number of category nodes in the tree the form has loaded.
MaxManageNodes == 3

\* The level fields of nodes 1..n: the client does not check that the level
\* of a node the server sends is its depth.
LevelFns(n) == [1..n -> 1..MaxLevel]

RECURSIVE BuildLeveledList(_, _, _, _)
BuildLeveledNode(par, lv, k, ks) ==
  [id |-> CategoryIds[k],
   name |-> CategoryIds[k],
   level |-> lv[k],
   parentId |-> IF par[k] = 0 THEN Undefined ELSE CategoryIds[par[k]],
   subCategories |-> ks]
BuildLeveledList(par, lv, n, parent) ==
  LET kids == SortedSeq({k \in 1..n : par[k] = parent})
  IN [i \in DOMAIN kids |->
        BuildLeveledNode(par, lv, kids[i], BuildLeveledList(par, lv, n, kids[i]))]

LeveledTrees ==
  UNION {{BuildLeveledList(par, lv, n, 0) : par \in ParentFns(n), lv \in LevelFns(n)} :
           n \in 0..MaxManageNodes}

\* flatten that does not descend into subCategories.
flatten_TopOnly(cats, targetLevel) ==
  SelectSeq(cats, LAMBDA cat : cat.level = targetLevel)

\* ManageCategories flatten: reduce over cats, pushing cat when its level is
\* the target and then the flattened subCategories.
RECURSIVE flatten(_, _)
flatten(cats, targetLevel) ==
  IF cats = <<>> THEN <<>>
  ELSE LET cat == Head(cats)
           acc == IF cat.level = targetLevel THEN <<cat>> ELSE <<>>
       IN acc \o flatten(cat.subCategories, targetLevel)
              \o flatten(Tail(cats), targetLevel)

\* CategoriesPage flattenCategories: [...acc, cat, ...flattenCategories(sub)]
\* when the level matches, [...acc, ...flattenCategories(sub)] otherwise.
RECURSIVE flattenCategoriesFrom(_, _, _)
flattenCategoriesFrom(acc, cats, level) ==
  IF cats = <<>> THEN acc
  ELSE LET cat == Head(cats)
           sub == flattenCategoriesFrom(<<>>, cat.subCategories, level)
       IN IF cat.level = level
          THEN flattenCategoriesFrom(acc \o <<cat>> \o sub, Tail(cats), level)
          ELSE flattenCategoriesFrom(acc \o sub, Tail(cats), level)

flattenCategories(cats, level) == flattenCategoriesFrom(<<>>, cats, level)

\* ManageCategories getAvailableParentCategories(level)
getAvailableParentCategories(level) ==
  IF level = 1 THEN <<>> ELSE flatten(manageCategories, level - 1)

\* CategoriesPage getAvailableParentCategories()
getAvailableParentCategoriesOfPage ==
  IF selectedLevel = 1 THEN <<>>
  ELSE flattenCategories(manageCategories, selectedLevel - 1)

\* fetchCategories of the form resolves, on mount or after a category was
\* created: setCategories(response).
fetchManageCategories(response) ==
  /\ manageFetchPending
  /\ manageFetchPending' = FALSE
  /\ manageCategories' = response
  /\ UNCHANGED <<selectedLevel, categoryForm, createCategoryRequest>>
  /\ UNCHANGED notManageVars

\* onChange of the level select: the form takes the level,
\* setSelectedLevel(Number(e.target.value)), and level 1 clears parentId.
setSelectedLevel(value) ==
  /\ selectedLevel' = value
  /\ categoryForm' = [level |-> value,
                      parentId |-> IF value = 1 THEN Undefined
                                   ELSE categoryForm.parentId]
  /\ UNCHANGED <<manageCategories, createCategoryRequest, manageFetchPending>>
  /\ UNCHANGED notManageVars

\* Names typed into the form.
CategoryNames == {"Phones"}

\* The options of the parent select, rendered for selectedLevel > 1: the
\* placeholder option of value "" and the available parent categories.
ParentOptions ==
  IF selectedLevel > 1
  THEN {""} \cup {c.id : c \in Range(getAvailableParentCategoriesOfPage)}
  ELSE {}

\* The parent select is changed.
setParentId(value) ==
  /\ value \in ParentOptions
  /\ categoryForm' = [categoryForm EXCEPT !.parentId = value]
  /\ UNCHANGED <<manageCategories, selectedLevel, createCategoryRequest,
                 manageFetchPending>>
  /\ UNCHANGED notManageVars

\* categorySchema: name is not empty, level is 1..3, parentId is any string
\* or absent.
categorySchema(data) ==
  /\ data.name # ""
  /\ data.level \in 1..3

\* The form is submitted (the button is disabled while isSubmitting) and
\* passes the schema: onSubmit up to await apiService.createCategory.
submitCategory(data) ==
  /\ createCategoryRequest = <<>>
  /\ categorySchema(data)
  /\ createCategoryRequest' = <<[name |-> data.name, level |-> data.level,
                                 parentId |-> data.parentId]>>
  /\ UNCHANGED <<manageCategories, selectedLevel, categoryForm, manageFetchPending>>
  /\ UNCHANGED notManageVars

\* createCategory resolved: fetchCategories() is called, reset() restores
\* the default values and setSelectedLevel(1).
createCategoryResolved ==
  /\ createCategoryRequest # <<>>
  /\ ~manageFetchPending
  /\ createCategoryRequest' = <<>>
  /\ manageFetchPending' = TRUE
  /\ categoryForm' = [level |-> 1, parentId |-> Undefined]
  /\ selectedLevel' = 1
  /\ UNCHANGED manageCategories
  /\ UNCHANGED notManageVars

\* createCategory rejected: a toast; the form keeps its values.
createCategoryRejected ==
  /\ createCategoryRequest # <<>>
  /\ createCategoryRequest' = <<>>
  /\ UNCHANGED <<manageCategories, selectedLevel, categoryForm, manageFetchPending>>
  /\ UNCHANGED notManageVars

----------------------------------------------------------------------------
(***************************************************************************)
(* SalesReportPage (app/SalesReport/Page.tsx): the load batch of the        *)
(* effect.  A report that is null is <<>>, a loaded report is <<data>>.     *)
(* A batch holds the selection it was issued for and, for each of its three *)
(* requests, how it settled.                                                *)
(***************************************************************************)
\* A cap on the batches in flight.
MaxBatches == 2

\* Values of the selectors; the page opens on 2024-06-02 (new Date()).
DateInputs == {"2024-06-01", "2024-06-02"}
MonthInputs == {5, 6}
YearInputs == {2023, 2024}
ReportTabs == {"overview", "daily", "monthly", "products"}

\* The answers of the reports API: each report is the one that was asked for.
OverviewData == [todaysSales |-> 2]
DailyData(date) == [date |-> date, totalSales |-> 1]
MonthlyData(month, year) == [month |-> month, year |-> year, totalSales |-> 7]

Outcomes(data) == {Resolved(data), Rejected}

\* loadData: setLoading(true) and the three requests of Promise.all.
loadData(date, month, year) ==
  [date |-> date, month |-> month, year |-> year,
   fetchOverview |-> Pending,
   fetchDailyReport |-> Pending,
   fetchMonthlyReport |-> Pending]

\* One request of batch i has settled.  None of the three fetch functions
\* rejects, so Promise.all resolves when the last of them has settled, and
\* loadData goes on with setLoading(false) in the same task.
awaitAll(i, batch) ==
  IF /\ batch.fetchOverview # Pending
     /\ batch.fetchDailyReport # Pending
     /\ batch.fetchMonthlyReport # Pending
  THEN /\ reportBatches' = SubSeq(reportBatches, 1, i - 1)
                             \o SubSeq(reportBatches, i + 1, Len(reportBatches))
       /\ reportLoading' = FALSE
       /\ reportSettled' = <<batch>>
  ELSE /\ reportBatches' = [reportBatches EXCEPT ![i] = batch]
       /\ UNCHANGED <<reportLoading, reportSettled>>

\* fetchOverview settled: setOverview(data), or the toast of the catch block.
fetchOverview(i, response) ==
  /\ reportBatches[i].fetchOverview = Pending
  /\ overview' = IF response[1].ok THEN <<response[1].data>> ELSE overview
  /\ awaitAll(i, [reportBatches[i] EXCEPT !.fetchOverview = response])
  /\ UNCHANGED <<dailyReport, monthlyReport, selectedDate, selectedMonth,
                 selectedYear, activeTab>>
  /\ UNCHANGED notReportVars

fetchDailyReport(i, response) ==
  /\ reportBatches[i].fetchDailyReport = Pending
  /\ dailyReport' = IF response[1].ok THEN <<response[1].data>> ELSE dailyReport
  /\ awaitAll(i, [reportBatches[i] EXCEPT !.fetchDailyReport = response])
  /\ UNCHANGED <<overview, monthlyReport, selectedDate, selectedMonth,
                 selectedYear, activeTab>>
  /\ UNCHANGED notReportVars

fetchMonthlyReport(i, response) ==
  /\ reportBatches[i].fetchMonthlyReport = Pending
  /\ monthlyReport' = IF response[1].ok THEN <<response[1].data>> ELSE monthlyReport
  /\ awaitAll(i, [reportBatches[i] EXCEPT !.fetchMonthlyReport = response])
  /\ UNCHANGED <<overview, dailyReport, selectedDate, selectedMonth,
                 selectedYear, activeTab>>
  /\ UNCHANGED notReportVars

\* The effect runs after the render in which a dependency has changed.
useEffectLoad(date, month, year) ==
  /\ Len(reportBatches) < MaxBatches
  /\ reportLoading' = TRUE
  /\ reportBatches' = Append(reportBatches, loadData(date, month, year))
  /\ reportSettled' = <<>>

\* While loading is true the page renders the loading text only: no tab and
\* no selector.
setActiveTab(tab) ==
  /\ ~reportLoading
  /\ activeTab' = tab
  /\ UNCHANGED <<reportLoading, overview, dailyReport, monthlyReport,
                 selectedDate, selectedMonth, selectedYear,
                 reportBatches, reportSettled>>
  /\ UNCHANGED notReportVars

setSelectedDate_WhileLoading(value) ==
  /\ value # selectedDate
  /\ selectedDate' = value
  /\ useEffectLoad(value, selectedMonth, selectedYear)
  /\ UNCHANGED <<overview, dailyReport, monthlyReport, selectedMonth,
                 selectedYear, activeTab>>
  /\ UNCHANGED notReportVars

\* The date input of the daily tab; a changed date runs the effect.
setSelectedDate(value) ==
  /\ ~reportLoading
  /\ activeTab = "daily"
  /\ value # selectedDate
  /\ selectedDate' = value
  /\ useEffectLoad(value, selectedMonth, selectedYear)
  /\ UNCHANGED <<overview, dailyReport, monthlyReport, selectedMonth,
                 selectedYear, activeTab>>
  /\ UNCHANGED notReportVars

\* The month and year selects of the monthly tab.
setSelectedMonth(value) ==
  /\ ~reportLoading
  /\ activeTab = "monthly"
  /\ value # selectedMonth
  /\ selectedMonth' = value
  /\ useEffectLoad(selectedDate, value, selectedYear)
  /\ UNCHANGED <<overview, dailyReport, monthlyReport, selectedDate,
                 selectedYear, activeTab>>
  /\ UNCHANGED notReportVars

setSelectedYear(value) ==
  /\ ~reportLoading
  /\ activeTab = "monthly"
  /\ value # selectedYear
  /\ selectedYear' = value
  /\ useEffectLoad(selectedDate, selectedMonth, value)
  /\ UNCHANGED <<overview, dailyReport, monthlyReport, selectedDate,
                 selectedMonth, activeTab>>
  /\ UNCHANGED notReportVars

----------------------------------------------------------------------------
Init ==
  /\ categories = <<>>
  /\ products = <<>>
  /\ searchQuery = ""
  /\ selectedCategory = ""
  /\ colorOptions = <<>>
  /\ ramOptions = <<>>
  /\ storageOptions = <<>>
  /\ variants = <<>>
  /\ formValues = [basePrice |-> UndefinedNumber,
                   purchasedPrice |-> UndefinedNumber,
                   sellingPrice |-> UndefinedNumber,
                   availableOptions |-> [color |-> <<>>, ram |-> <<>>, storage |-> <<>>],
                   variants |-> <<>>]
  /\ lastHandler = [op |-> "none", discardedEdits |-> FALSE]
  /\ availableProducts = <<>>
  /\ saleSearchQuery = ""
  /\ loading = TRUE
  /\ cart = <<>>
  /\ isSubmitting = FALSE
  /\ salePc = "mount"
  /\ saleData = <<>>
  /\ sale = <<>>
  /\ receiptRequest = <<>>
  /\ submitToast = ""
  /\ pricingModal = [isOpen |-> FALSE, productId |-> "", currentPrice |-> 0]
  /\ profitMargin = 20
  /\ pricingRequest = <<>>
  /\ manageCategories = <<>>
  /\ selectedLevel = 1
  /\ renderedCart = <<>>
  /\ specifications = <<[key |-> "", value |-> ""]>>
  /\ specificationsValue = <<>>
  /\ categoryForm = [level |-> 1, parentId |-> Undefined]
  /\ createCategoryRequest = <<>>
  /\ manageFetchPending = TRUE
  /\ productsLoading = TRUE
  \* The mount effect has called fetchProducts() and fetchCategories():
  \* both requests are in flight, and they settle in any order.
  /\ pageFetch = [fetchProducts |-> Pending, fetchCategories |-> Pending]
  /\ reportLoading = TRUE
  /\ overview = <<>>
  /\ dailyReport = <<>>
  /\ monthlyReport = <<>>
  /\ selectedDate = "2024-06-02"
  /\ selectedMonth = 6
  /\ selectedYear = 2024
  /\ activeTab = "overview"
  \* The effect has run for the first render.
  /\ reportBatches = <<loadData("2024-06-02", 6, 2024)>>
  /\ reportSettled = <<>>

\* The products page.
PageNext ==
  \/ \E data \in CategoryTrees : fetchCategories(data)
  \/ \E data \in ProductLists : fetchProducts(data)
  \/ \E value \in SearchQueries : setSearchQuery(value)
  \/ \E value \in CategoryIdInputs : setSelectedCategory(value)

\* The new-product form.
FormNext ==
  \/ \E color \in ColorInputs : addColorOption(color)
  \/ \E ram \in RamInputs : addRamOption(ram)
  \/ \E storage \in StorageInputs : addStorageOption(storage)
  \/ \E color \in Range(colorOptions) : removeColorOption(color)
  \/ \E ram \in Range(ramOptions) : removeRamOption(ram)
  \/ \E storage \in Range(storageOptions) : removeStorageOption(storage)
  \/ \E value \in BasePriceInputs : changePrice("basePrice", value)
  \/ \E value \in PurchasedPriceInputs : changePrice("purchasedPrice", value)
  \/ \E value \in SellingPriceInputs : changePrice("sellingPrice", value)
  \/ /\ EditedCount < MaxEdits
     /\ \E i \in DOMAIN variants, field \in VariantFields, value \in VariantInputs :
          updateVariant(variants[i].id, field, value)

\* The new-product form, given axis values that contain the separator and
\* the tag of another axis.
VariantIdNext ==
  \/ \E color \in {"Black", "Black-ram-8GB"} : addColorOption(color)
  \/ \E ram \in {"8GB-ram-16GB", "16GB"} : addRamOption(ram)
  \/ \E storage \in StorageInputs : addStorageOption(storage)
  \/ \E color \in Range(colorOptions) : removeColorOption(color)
  \/ \E ram \in Range(ramOptions) : removeRamOption(ram)
  \/ \E storage \in Range(storageOptions) : removeStorageOption(storage)
  \/ /\ EditedCount < MaxEdits
     /\ \E i \in DOMAIN variants, field \in VariantFields, value \in VariantInputs :
          updateVariant(variants[i].id, field, value)

\* The specification rows of a product form.
SpecificationsNext ==
  \/ addSpecification
  \/ \E index \in DOMAIN specifications : removeSpecification(index)
  \/ \E index \in DOMAIN specifications, value \in {"", "cpu", "gpu"} :
        handleSpecificationChange(index, "key", value)
  \/ \E index \in DOMAIN specifications, value \in {"", "M1", "M2"} :
        handleSpecificationChange(index, "value", value)

\* The new-sale page.
SaleNext ==
  \/ \E data \in AvailableProductLists : mountFetchResolved(data)
  \/ mountFetchRejected
  \/ \E value \in SaleSearchQueries : setSaleSearchQuery(value)
  \/ \E product \in Range(saleFilteredProducts) : addToCart(product)
  \/ \E i \in DOMAIN cart : removeFromCart(cart[i].productId)
  \/ \E i \in DOMAIN cart, quantity \in QuantityInputs :
        updateQuantity(cart[i].productId, quantity)
  \/ \E customerName \in CustomerNames : onSubmit([customerName |-> customerName])
  \/ \E response \in SaleResponses : createSaleResolved(response)
  \/ createSaleRejected
  \/ \E ok \in BOOLEAN : printReceiptSettled(ok)
  \/ \E data \in AvailableProductLists : refetchResolved(data)
  \/ refetchRejected

\* The cart of the new-sale page with its renders: the buttons and inputs on
\* screen are those of the last render.
CartRenderNext ==
  \/ \E data \in AvailableProductLists : mountFetchResolved(data)
  \/ \E product \in Range(saleFilteredProducts) : addToCartOfRender(product)
  \/ \E i \in DOMAIN renderedCart : removeFromCart(renderedCart[i].productId)
  \/ \E i \in DOMAIN renderedCart, quantity \in QuantityInputs :
        updateQuantity(renderedCart[i].productId, quantity)
  \/ render

\* The pricing modal of the products page.
PricingNext ==
  \/ \E productId \in PricedProductIds, currentPrice \in PurchasedPrices :
        openPricingModal(productId, currentPrice)
  \/ closePricingModal
  \/ \E value \in ProfitMargins : setProfitMargin(value)
  \/ handlePricingUpdate
  \/ pricingUpdateResolved
  \/ pricingUpdateRejected

\* The requests of a page load: the mount effect of the products page and
\* the load batches of the sales-report page.
LoadProductLists == {<<>>} \cup {<<p>> : p \in {q \in ProductSet :
                       /\ q.name = "Tv" /\ q.mainCategory = "c1"
                       /\ q.subCategory = Undefined
                       /\ q.subSubCategory = Undefined}}
LoadCategoryTrees == {t \in CategoryTrees : Len(t) <= 1 /\ \A i \in DOMAIN t : t[i].subCategories = <<>>}

LoadNext ==
  \/ \E data \in LoadProductLists : fetchProducts(data)
  \/ fetchProductsRejected
  \/ \E data \in LoadCategoryTrees : fetchCategories(data)
  \/ fetchCategoriesRejected
  \/ \E i \in DOMAIN reportBatches, response \in Outcomes(OverviewData) :
        fetchOverview(i, response)
  \/ \E i \in DOMAIN reportBatches :
        \E response \in Outcomes(DailyData(reportBatches[i].date)) :
           fetchDailyReport(i, response)
  \/ \E i \in DOMAIN reportBatches :
        \E response \in Outcomes(MonthlyData(reportBatches[i].month,
                                              reportBatches[i].year)) :
           fetchMonthlyReport(i, response)
  \/ \E tab \in ReportTabs : setActiveTab(tab)
  \/ \E value \in DateInputs : setSelectedDate(value)
  \/ \E value \in MonthInputs : setSelectedMonth(value)
  \/ \E value \in YearInputs : setSelectedYear(value)

\* The create-category form.
ManageNext ==
  \/ \E response \in LeveledTrees : fetchManageCategories(response)
  \/ \E value \in 1..MaxLevel : setSelectedLevel(value)

\* The create-category form with its parent select and its submission, over
\* the trees of at most two categories.
CategoryFormNext ==
  \/ \E response \in {t \in LeveledTrees :
                          Len(flatten(t, 1)) + Len(flatten(t, 2))
                            + Len(flatten(t, 3)) <= 2} :
        fetchManageCategories(response)
  \/ \E value \in 1..MaxLevel : setSelectedLevel(value)
  \/ \E value \in ParentOptions : setParentId(value)
  \/ \E name \in CategoryNames :
        submitCategory([name |-> name, level |-> categoryForm.level,
                        parentId |-> categoryForm.parentId])
  \/ createCategoryResolved
  \/ createCategoryRejected

PageSpec == Init /\ [][PageNext]_vars

FormSpec == Init /\ [][FormNext]_vars

SpecificationsSpec == Init /\ [][SpecificationsNext]_vars

VariantIdSpec == Init /\ [][VariantIdNext]_vars

SaleSpec == Init /\ [][SaleNext]_vars

PricingSpec == Init /\ [][PricingNext]_vars

CartRenderSpec == Init /\ [][CartRenderNext]_vars

ManageSpec == Init /\ [][ManageNext]_vars

CategoryFormSpec == Init /\ [][CategoryFormNext]_vars

LoadSpec == Init /\ [][LoadNext]_vars

\* Every request of a page load settles at some time, with a response or
\* with an error.
LoadFairness ==
  /\ WF_vars((\E data \in LoadProductLists : fetchProducts(data))
               \/ fetchProductsRejected)
  /\ WF_vars((\E data \in LoadCategoryTrees : fetchCategories(data))
               \/ fetchCategoriesRejected)
  /\ WF_vars(\E i \in DOMAIN reportBatches, response \in Outcomes(OverviewData) :
               fetchOverview(i, response))
  /\ WF_vars(\E i \in DOMAIN reportBatches :
               \E response \in Outcomes(DailyData(reportBatches[i].date)) :
                  fetchDailyReport(i, response))
  /\ WF_vars(\E i \in DOMAIN reportBatches :
               \E response \in Outcomes(MonthlyData(reportBatches[i].month,
                                                     reportBatches[i].year)) :
                  fetchMonthlyReport(i, response))

LoadLiveSpec == LoadSpec /\ LoadFairness

\* Every request the page has sent settles at some time, with a response or
\* with an error: the browser ends a fetch that gets no answer.
SaleFairness ==
  /\ WF_vars((\E data \in AvailableProductLists : mountFetchResolved(data))
               \/ mountFetchRejected)
  /\ WF_vars((\E response \in SaleResponses : createSaleResolved(response))
               \/ createSaleRejected)
  /\ WF_vars(\E ok \in BOOLEAN : printReceiptSettled(ok))
  /\ WF_vars((\E data \in AvailableProductLists : refetchResolved(data))
               \/ refetchRejected)

SaleLiveSpec == SaleSpec /\ SaleFairness

----------------------------------------------------------------------------
(***************************************************************************)
(* Properties of the category filter (PageSpec).                           *)
(***************************************************************************)
\* The root-to-node id paths of a forest.
RECURSIVE PathsOf(_, _)
PathsOf(cats, prefix) ==
  UNION {LET path == Append(prefix, cats[i].id)
         IN {path} \cup PathsOf(cats[i].subCategories, path) : i \in DOMAIN cats}

\* The ids of all nodes of the forest.
TreeIds(cats) == {path[Len(path)] : path \in PathsOf(cats, <<>>)}

\* The ids of the node c and of its descendants.
SubtreeIds(cats, c) ==
  {path[Len(path)] : path \in {q \in PathsOf(cats, <<>>) : c \in Range(q)}}

CategoryFields(product) ==
  {product.mainCategory, product.subCategory, product.subSubCategory}

InCategory(i) == isProductInCategory(products[i], selectedCategory, categories)

\* C1 (as stated): for a non-empty categoryId that is the id of no node of
\* the loaded tree, isProductInCategory is false for every product, whatever
\* its category fields hold.
C1_Original ==
  \A i \in DOMAIN products :
    (selectedCategory # "" /\ selectedCategory \notin TreeIds(categories))
      => ~InCategory(i)

\* C1 (amended): for a non-empty categoryId that is the id of no node of the
\* loaded tree and equals none of the product's three category fields,
\* isProductInCategory is false.
C1_NotInTreeIsFalse ==
  \A i \in DOMAIN products :
    (/\ selectedCategory # ""
     /\ selectedCategory \notin TreeIds(categories)
     /\ selectedCategory \notin CategoryFields(products[i]))
      => /\ ~InCategory(i)
         /\ ~ArrayIncludes(filteredProducts, products[i])

C1_Witness ==
  /\ categories # <<>>
  /\ products # <<>>
  /\ selectedCategory = UnknownId
  /\ products[1].mainCategory = "c1"
  /\ "c1" \in TreeIds(categories)
  /\ ~InCategory(1)

\* C2: for a non-empty categoryId that equals none of the product's three
\* category fields, isProductInCategory is true exactly when categoryId is
\* the id of a node of the tree and one of the product's category fields is
\* the id of that node or of one of its descendants; a product with
\* mainCategory A and subCategory B (B a child of top-level A) is listed when
\* filtering by A and not listed when filtering by another top-level category.
C2_HierarchyMembership ==
  \A i \in DOMAIN products :
    /\ (selectedCategory # "" /\ selectedCategory \notin CategoryFields(products[i]))
         => (InCategory(i)
               <=> /\ selectedCategory \in TreeIds(categories)
                   /\ CategoryFields(products[i])
                        \cap SubtreeIds(categories, selectedCategory) # {})
    /\ \A a \in DOMAIN categories :
         \A b \in DOMAIN categories[a].subCategories :
           (/\ products[i].mainCategory = categories[a].id
            /\ products[i].subCategory = categories[a].subCategories[b].id
            /\ products[i].subSubCategory = Undefined)
             => /\ (selectedCategory = categories[a].id /\ searchQuery = "")
                     => ArrayIncludes(filteredProducts, products[i])
                /\ \A c \in DOMAIN categories :
                     (c # a /\ selectedCategory = categories[c].id)
                       => ~ArrayIncludes(filteredProducts, products[i])

C2_Witness ==
  /\ products # <<>>
  /\ selectedCategory = "c1"
  /\ products[1].mainCategory = "c2"
  /\ products[1].subCategory = Undefined
  /\ products[1].subSubCategory = "c3"
  /\ Len(categories) = 2
  /\ categories[1].id = "c1"
  /\ "c3" \in SubtreeIds(categories, "c1")
  /\ "c2" \notin SubtreeIds(categories, "c1")
  /\ searchQuery = ""
  /\ filteredProducts = products

\* C3: whenever categoryId equals one of the product's three category fields,
\* in particular for categoryId = product.mainCategory, isProductInCategory
\* is true for every category tree, the empty tree included.
C3_DirectMatchIsTrue ==
  \A i \in DOMAIN products :
    /\ isProductInCategory(products[i], products[i].mainCategory, categories)
    /\ selectedCategory \in CategoryFields(products[i]) => InCategory(i)

C3_Witness ==
  /\ categories = <<>>
  /\ products # <<>>
  /\ selectedCategory = "c3"
  /\ products[1].subSubCategory = "c3"
  /\ searchQuery = ""
  /\ filteredProducts = products

\* C4: for the empty categoryId isProductInCategory is true for every
\* product and every category tree.
C4_EmptyCategoryIsTrue ==
  \A i \in DOMAIN products :
    /\ isProductInCategory(products[i], "", categories)
    /\ selectedCategory = "" => InCategory(i)

C4_Witness ==
  /\ categories # <<>>
  /\ products # <<>>
  /\ selectedCategory = ""
  /\ products[1].mainCategory = UnknownId
  /\ searchQuery = ""
  /\ filteredProducts = products

----------------------------------------------------------------------------
(***************************************************************************)
(* Properties of the variant matrix (FormSpec).                            *)
(***************************************************************************)
\* generateVariants ran last: variants is its output for the current option
\* lists and form-level prices.
Regenerated == lastHandler.op \in {"axis", "price"}

SomeAxis == colorOptions # <<>> \/ ramOptions # <<>> \/ storageOptions # <<>>

\* The values an axis contributes: its list, or undefined when it is empty.
AxisChoices(options) == IF options = <<>> THEN {Undefined} ELSE Range(options)

\* The number of values an axis contributes to the product.
AxisSize(options) == IF options = <<>> THEN 1 ELSE Len(options)

\* C5: with at least one non-empty axis list, the generated variants are the
\* Cartesian product over the non-empty lists: their number is the product
\* of the lengths of the non-empty lists, every combination occurs exactly
\* once, and an axis whose list is empty is undefined in every variant.
C5_CartesianProduct ==
  (Regenerated /\ SomeAxis) =>
    /\ Len(variants) = AxisSize(colorOptions) * AxisSize(ramOptions)
                         * AxisSize(storageOptions)
    /\ \A c \in AxisChoices(colorOptions), r \in AxisChoices(ramOptions),
          s \in AxisChoices(storageOptions) :
         Cardinality({i \in DOMAIN variants :
                        /\ variants[i].color = c
                        /\ variants[i].ram = r
                        /\ variants[i].storage = s}) = 1
    /\ \A i \in DOMAIN variants :
         /\ colorOptions = <<>> => variants[i].color = Undefined
         /\ ramOptions = <<>> => variants[i].ram = Undefined
         /\ storageOptions = <<>> => variants[i].storage = Undefined

C5_Witness ==
  /\ Regenerated
  /\ Len(colorOptions) = 2
  /\ Len(ramOptions) = 2
  /\ storageOptions = <<>>
  /\ Len(variants) = 4
  /\ variants[3].color = colorOptions[2]
  /\ variants[3].ram = ramOptions[1]
  /\ variants[3].storage = Undefined

\* The id of a variant, by the axes it carries.
ExpectedId(v) ==
  LET c == v.color # Undefined
      r == v.ram # Undefined
      s == v.storage # Undefined
  IN CASE c /\ r /\ s ->
            "color-" \o v.color \o "-ram-" \o v.ram \o "-storage-" \o v.storage
       [] c /\ r /\ ~s -> "color-" \o v.color \o "-ram-" \o v.ram
       [] c /\ ~r /\ s -> "color-" \o v.color \o "-storage-" \o v.storage
       [] c /\ ~r /\ ~s -> "color-" \o v.color
       [] ~c /\ r /\ s -> "ram-" \o v.ram \o "-storage-" \o v.storage
       [] ~c /\ r /\ ~s -> "ram-" \o v.ram
       [] ~c /\ ~r /\ s -> "storage-" \o v.storage
       [] OTHER -> "default"

\* The value of an axis in the variant at position i (from 1) when the axis
\* is looped over with `inner` variants generated per value.
AxisAt(options, i, inner) ==
  IF options = <<>> THEN Undefined
  ELSE options[(((i - 1) \div inner) % Len(options)) + 1]

\* C6: a variant's id is its present axis tags color-<v>, ram-<v>,
\* storage-<v> joined with '-' in that order, and the variants are emitted
\* with colours as the outermost loop, RAM next and storage innermost;
\* colours [Red, Blue], no RAM and storage [128GB] give the ids
\* color-Red-storage-128GB, color-Blue-storage-128GB in this order.
C6_IdsAndOrder ==
  Regenerated =>
    /\ \A i \in DOMAIN variants :
         /\ variants[i].id = ExpectedId(variants[i])
         /\ SomeAxis =>
              /\ variants[i].color =
                   AxisAt(colorOptions, i,
                          AxisSize(ramOptions) * AxisSize(storageOptions))
              /\ variants[i].ram = AxisAt(ramOptions, i, AxisSize(storageOptions))
              /\ variants[i].storage = AxisAt(storageOptions, i, 1)
    /\ (/\ colorOptions = <<"Red", "Blue">>
        /\ ramOptions = <<>>
        /\ storageOptions = <<"128GB">>)
         => [i \in DOMAIN variants |-> variants[i].id]
              = <<"color-Red-storage-128GB", "color-Blue-storage-128GB">>

C6_Witness ==
  /\ Regenerated
  /\ colorOptions = <<"Red", "Blue">>
  /\ ramOptions = <<>>
  /\ storageOptions = <<"128GB">>
  /\ Len(variants) = 2
  /\ variants[1].id = "color-Red-storage-128GB"
  /\ variants[2].id = "color-Blue-storage-128GB"

\* C7: with all three axis lists empty the result is exactly one variant
\* without axis values, with id 'default', stock 0 and the default prices
\* of the generation.
C7_DefaultVariant ==
  (Regenerated /\ ~SomeAxis) =>
    LET defaults == variantDefaults(formValues)
    IN /\ Len(variants) = 1
       /\ variants[1].id = "default"
       /\ variants[1].color = Undefined
       /\ variants[1].ram = Undefined
       /\ variants[1].storage = Undefined
       /\ variants[1].stock = 0
       /\ variants[1].purchasedPrice = defaults.purchasedPrice
       /\ variants[1].sellingPrice = defaults.sellingPrice

C7_Witness ==
  /\ Regenerated
  /\ ~SomeAxis
  /\ formValues.purchasedPrice = 1
  /\ formValues.sellingPrice = 3
  /\ Len(variants) = 1
  /\ variants[1].id = "default"
  /\ variants[1].purchasedPrice = 1
  /\ variants[1].sellingPrice = 3

\* A form-level number is falsy when it is unset, NaN or 0.
Falsy(n) == n \in {UndefinedNumber, NaN, 0}

\* The prices a generation gives to every variant.
ExpectedPurchasedPrice ==
  IF Falsy(formValues.purchasedPrice) THEN 0 ELSE formValues.purchasedPrice

ExpectedSellingPrice ==
  IF ~Falsy(formValues.sellingPrice) THEN formValues.sellingPrice
  ELSE IF ~Falsy(formValues.basePrice) THEN formValues.basePrice
  ELSE 0

\* C8 (as stated): every generated variant has stock 0, purchasedPrice equal
\* to the form-level purchased price and sellingPrice equal to the form-level
\* selling price, for every value of the form-level prices.
C8_Original ==
  Regenerated =>
    \A i \in DOMAIN variants :
      /\ variants[i].stock = 0
      /\ variants[i].purchasedPrice = formValues.purchasedPrice
      /\ variants[i].sellingPrice = formValues.sellingPrice

\* C8 (amended): every generated variant has stock 0, purchasedPrice equal to
\* the form-level purchased price (0 when that is unset, NaN or 0) and
\* sellingPrice equal to the form-level selling price when that is set and
\* non-zero, otherwise to the form-level base price (0 when that is unset,
\* NaN or 0 as well).
C8_DefaultPrices ==
  Regenerated =>
    /\ variants # <<>>
    /\ \A i \in DOMAIN variants :
         /\ variants[i].stock = 0
         /\ variants[i].purchasedPrice = ExpectedPurchasedPrice
         /\ variants[i].sellingPrice = ExpectedSellingPrice

C8_Witness ==
  /\ Regenerated
  /\ SomeAxis
  /\ formValues.basePrice = 2
  /\ formValues.sellingPrice = 0
  /\ formValues.purchasedPrice = UndefinedNumber
  /\ variants[1].sellingPrice = 2
  /\ variants[1].purchasedPrice = 0

\* An axis value was added or removed by the last handler.
AxisValueChanged == lastHandler.op = "axis"

\* C9 (as stated): every add or remove of an axis value replaces the whole
\* variant collection by a fresh one, so that afterwards every variant has
\* stock 0 and the form-level purchased and selling price.
C9_Original ==
  AxisValueChanged =>
    \A i \in DOMAIN variants :
      /\ variants[i].stock = 0
      /\ variants[i].purchasedPrice = formValues.purchasedPrice
      /\ variants[i].sellingPrice = formValues.sellingPrice

\* C9 (amended): every add or remove of an axis value replaces the whole
\* variant collection by a freshly generated one, so that afterwards every
\* variant has stock 0, the form-level purchased price (0 when unset) and the
\* form-level selling price or, when that is unset or 0, the base price (0
\* when unset); this holds also for variants whose axis combination existed
\* before and had been edited with updateVariant.
C9_RegenerationReplaces ==
  AxisValueChanged =>
    /\ Len(variants) = AxisSize(colorOptions) * AxisSize(ramOptions)
                         * AxisSize(storageOptions)
    /\ formValues.variants = variants
    /\ \A i \in DOMAIN variants :
         /\ variants[i].stock = 0
         /\ variants[i].purchasedPrice = ExpectedPurchasedPrice
         /\ variants[i].sellingPrice = ExpectedSellingPrice

\* An edited collection was replaced by adding a RAM value: the variant of
\* the first RAM value existed before.
C9_Witness ==
  /\ AxisValueChanged
  /\ lastHandler.discardedEdits
  /\ colorOptions = <<"Red">>
  /\ Len(ramOptions) = 2
  /\ Len(variants) = 2
  /\ \A i \in DOMAIN variants : variants[i].stock = 0

VariantIdInputs == {variants[i].id : i \in DOMAIN variants} \cup {"color-Green"}

\* C10: updateVariant(variantId, field, value) keeps the length and order of
\* the collection; the variant with that id has the field set to value and
\* its other fields unchanged; every other variant is unchanged; without a
\* variant of that id the collection is unchanged.
C10_UpdateVariantFrame ==
  \A id \in VariantIdInputs, field \in VariantFields, value \in VariantInputs :
    LET updated == updateVariantList(variants, id, field, value)
    IN /\ Len(updated) = Len(variants)
       /\ \A i \in DOMAIN variants :
            IF variants[i].id = id
            THEN /\ updated[i][field] = value
                 /\ \A other \in (DOMAIN variants[i]) \ {field} :
                      updated[i][other] = variants[i][other]
            ELSE updated[i] = variants[i]
       /\ (\A i \in DOMAIN variants : variants[i].id # id) => updated = variants

C10_Witness ==
  LET generated == generateVariants(colorOptions, ramOptions, storageOptions,
                                    formValues)
  IN /\ lastHandler.op = "edit"
     /\ Len(variants) = 4
     /\ variants[3].stock = 5
     /\ variants[3].sellingPrice = generated[3].sellingPrice
     /\ variants[1] = generated[1]
     /\ variants[2] = generated[2]
     /\ variants[4] = generated[4]
     /\ formValues.variants = variants

----------------------------------------------------------------------------
(***************************************************************************)
(* Properties of the cart and of the sale submission (SaleSpec).           *)
(***************************************************************************)
\* The stock of the variant a cart line was taken from: the first variant of
\* its product in the loaded list; <<>> when the list has no such variant.
StockOf(ps, productId) ==
  LET product == findProduct(ps, productId)
  IN IF product = <<>> \/ product[1].variants = <<>> THEN <<>>
     ELSE <<product[1].variants[1].stock>>

\* C11: in every reachable state of the sale page (addToCart, updateQuantity,
\* removeFromCart, submissions, refetches) the quantity of every cart line is
\* a number that is at least 1 and at most the current stock of the first
\* variant of its product in the loaded product list.
C11_CartWithinStock ==
  \A i \in DOMAIN cart :
    LET stock == StockOf(availableProducts, cart[i].productId)
    IN /\ stock # <<>>
       /\ cart[i].quantity # NaN
       /\ cart[i].quantity >= 1
       /\ cart[i].quantity <= stock[1]

\* The indices of the cart lines of a product.
LinesOf(c, productId) == {i \in DOMAIN c : c[i].productId = productId}

\* The line addToCart appends for a product.
NewLine(product) ==
  [productId |-> IdOf(product), name |-> product.name,
   price |-> product.variants[1].sellingPrice, quantity |-> 1]

\* What the claim says addToCart(product) makes of cart c.
ExpectedAfterAdd(c, product) ==
  LET lines == LinesOf(c, IdOf(product))
      stock == product.variants[1].stock
  IN IF lines # {}
     THEN IF \A i \in lines : JsLt(c[i].quantity, stock)
          THEN [i \in DOMAIN c |->
                  IF i \in lines THEN [c[i] EXCEPT !.quantity = c[i].quantity + 1]
                  ELSE c[i]]
          ELSE c
     ELSE IF stock = 0 THEN c
          ELSE c \o <<NewLine(product)>>

\* C12: for every reachable cart and every listed product, the cart that
\* addToCart(product) sets has the quantity of the product's line raised by
\* exactly 1 when that quantity is below the stock of the first variant and
\* is otherwise the cart unchanged; without a line it is the cart with a line
\* of quantity 1 appended at the end, unless the stock is 0, when it is the
\* cart unchanged.  Adding a product of stock 1 twice to a cart without it
\* leaves exactly one line for it, of quantity 1.
C12_AddToCart ==
  \A product \in Range(saleFilteredProducts) :
    LET once == addToCartList(cart, product)
        twice == addToCartList(once, product)
    IN /\ once = ExpectedAfterAdd(cart, product)
       /\ (product.variants[1].stock = 1 /\ LinesOf(cart, IdOf(product)) = {}) =>
            /\ twice = once
            /\ Cardinality(LinesOf(twice, IdOf(product))) = 1
            /\ \A i \in LinesOf(twice, IdOf(product)) : twice[i].quantity = 1

\* A listed product of stock 1 is in the cart with quantity 1: it was appended
\* and a further add meets the stock limit.
C12_Witness ==
  \E product \in Range(saleFilteredProducts) :
    /\ product.variants[1].stock = 1
    /\ \E i \in DOMAIN cart :
         /\ cart[i].productId = IdOf(product)
         /\ cart[i].quantity = 1
    /\ Len(cart) = 2

\* What the claim says updateQuantity(productId, quantity) makes of cart c
\* when ps is the loaded product list.  A product that is not in ps, or has
\* no variant, has no stock that quantity could exceed.
ExpectedAfterUpdate(c, ps, productId, quantity) ==
  LET stock == StockOf(ps, productId)
      rejected == \/ JsLt(quantity, 1)
                  \/ stock # <<>> /\ JsGt(quantity, stock[1])
  IN IF rejected THEN c
     ELSE [i \in DOMAIN c |->
             IF i \in LinesOf(c, productId) THEN [c[i] EXCEPT !.quantity = quantity]
             ELSE c[i]]

ProductIdInputs == {"p1", "p2", UnknownId}

\* The lines of c that do not belong to productId, in their order in c.
LinesWithout(c, productId) ==
  LET kept == SortedSeq(DOMAIN c \ LinesOf(c, productId))
  IN [k \in 1..Len(kept) |-> c[kept[k]]]

\* C14: for every reachable cart and every product id, the cart that
\* removeFromCart(productId) sets consists of the lines of other products,
\* unchanged and in their original order; when no line matches it equals
\* the cart.
C14_RemoveFromCart ==
  \A productId \in ProductIdInputs :
    LET after == removeFromCartList(cart, productId)
    IN /\ after = LinesWithout(cart, productId)
       /\ LinesOf(cart, productId) = {} => after = cart

\* A line was removed while the sale that carries it was pending: the cart
\* holds the other line of the submitted cart only.
C14_Witness ==
  /\ saleData # <<>>
  /\ Len(saleData[1].items) = 2
  /\ Len(cart) = 1
  /\ cart[1].productId = saleData[1].items[2].productId

\* The sum of price * quantity over the lines with index in S.
RECURSIVE SumOver(_, _)
SumOver(c, S) ==
  IF S = {} THEN 0
  ELSE LET i == CHOOSE j \in S : TRUE
       IN c[i].price * c[i].quantity + SumOver(c, S \ {i})

\* C15: calculateTotal is the sum of price * quantity over the lines of the
\* cart (NaN as soon as one quantity is NaN), 0 for the empty cart, and 35
\* for the cart of lines (price 10, quantity 2) and (price 5, quantity 3).
C15_CalculateTotal ==
  /\ calculateTotal =
       IF \E i \in DOMAIN cart : cart[i].quantity = NaN THEN NaN
       ELSE SumOver(cart, DOMAIN cart)
  /\ cart = <<>> => calculateTotal = 0
  /\ ( /\ Len(cart) = 2
       /\ cart[1].price = 10 /\ cart[1].quantity = 2
       /\ cart[2].price = 5 /\ cart[2].quantity = 3 ) => calculateTotal = 35

\* The cart of the example: (price 10, quantity 2) and (price 5, quantity 3).
C15_Witness ==
  /\ Len(cart) = 2
  /\ cart[1].price = 10 /\ cart[1].quantity = 2
  /\ cart[2].price = 5 /\ cart[2].quantity = 3

\* The step in which a rejection of the create-sale request is handled.
CreateSaleFailed == salePc = "createSale" /\ salePc' = "idle"

\* C16, as stated: whenever the create-sale request fails, the cart after
\* the failure is the cart of submission time (the lines sent in the
\* request), no receipt request is issued and isSubmitting is false again.
C16_Original ==
  [][CreateSaleFailed =>
       /\ saleItems(cart') = saleData[1].items
       /\ receiptRequest' = <<>>
       /\ isSubmitting' = FALSE]_vars

\* C16, amended: whenever the create-sale request fails, handling the
\* failure leaves the cart as it was just before, edits made while the
\* request was pending included, no receipt request is issued and
\* isSubmitting is false again.
C16_FailureKeepsCart ==
  [][CreateSaleFailed =>
       /\ cart' = cart
       /\ receiptRequest' = <<>>
       /\ isSubmitting' = FALSE]_vars

\* A sale has failed and the cart still has its lines for a retry.
C16_Witness ==
  /\ submitToast = "Failed to complete sale"
  /\ salePc = "idle"
  /\ ~isSubmitting
  /\ cart # <<>>

\* C18: a submission with an empty cart is rejected in the handler: the step
\* sends no request (no request of the page is pending after it that was
\* not pending before), leaves isSubmitting false and the cart empty; and
\* whenever isSubmitting is true the request that was sent carries lines.
C18_EmptyCartRejected ==
  /\ [][\A customerName \in CustomerNames :
          (cart = <<>> /\ onSubmit([customerName |-> customerName])) =>
            /\ salePc' = salePc
            /\ saleData' = <<>>
            /\ receiptRequest' = <<>>
            /\ loading' = loading
            /\ isSubmitting' = FALSE
            /\ cart' = <<>>]_vars
  /\ [](isSubmitting => saleData # <<>> /\ saleData[1].items # <<>>)

\* An empty cart was submitted and rejected.
C18_Witness ==
  /\ submitToast = "Cart is empty"
  /\ cart = <<>>
  /\ ~isSubmitting
  /\ salePc = "idle"
  /\ saleData = <<>>

----------------------------------------------------------------------------
(***************************************************************************)
(* The success path of a sale (SaleLiveSpec).                              *)
(***************************************************************************)
\* The create-sale request of the submission has succeeded and the
\* submission has not finished yet.
SaleCreated == salePc \in {"getPrintReceipt", "getAvailableProducts"}

\* The step in which the submission clears the cart.
CartCleared == salePc = "getAvailableProducts" /\ salePc' = "idle"

\* C17: once the create-sale request of a submission has succeeded, a
\* print-receipt request for the id of the returned sale has been issued,
\* and it has been issued when the submission clears the cart; and the
\* cart eventually is empty with isSubmitting false, whether the receipt
\* request and the refetch succeed or fail.
C17_SuccessPath ==
  /\ [](SaleCreated => receiptRequest = <<IdOf(sale[1])>>)
  /\ [][CartCleared =>
         /\ receiptRequest = <<IdOf(sale[1])>>
         /\ cart' = <<>>
         /\ isSubmitting' = FALSE]_vars
  /\ (salePc = "getPrintReceipt") ~> (cart = <<>> /\ ~isSubmitting)

\* A sale has gone through: its success was notified, the cart is empty and
\* isSubmitting is false.
C17_Witness ==
  /\ submitToast = "Sale completed successfully"
  /\ salePc = "idle"
  /\ cart = <<>>
  /\ ~isSubmitting

----------------------------------------------------------------------------
(***************************************************************************)
(* Proportional pricing (PricingSpec).                                     *)
(***************************************************************************)
\* C19: every handlePricingUpdate step sends exactly one request, a PATCH to
\* /products/<id> whose body carries the purchased price it was given and a
\* selling price that is purchasedPrice * (1 + profitMargin/100) rounded to
\* the nearest hundredth; for purchased price 100.00 and margin 25 the
\* selling price is exactly 125.00.
C19_ProportionalPricing ==
  [][handlePricingUpdate =>
       /\ Len(pricingRequest') = Len(pricingRequest) + 1
       /\ SubSeq(pricingRequest', 1, Len(pricingRequest)) = pricingRequest
       /\ LET request == pricingRequest'[Len(pricingRequest')]
              exact == pricingModal.currentPrice * (100 + profitMargin)
          IN /\ request.method = "PATCH"
             /\ request.path = "/products/" \o pricingModal.productId
             /\ request.body.purchasedPrice = pricingModal.currentPrice
             /\ 100 * request.body.sellingPrice - exact <= 50
             /\ exact - 100 * request.body.sellingPrice <= 50
             /\ (pricingModal.currentPrice = 10000 /\ profitMargin = 25) =>
                  request.body.sellingPrice = 12500]_vars

\* The request of the example is pending: purchased price 100.00, selling
\* price 125.00.
C19_Witness ==
  /\ pricingRequest # <<>>
  /\ pricingRequest[1].body = [purchasedPrice |-> 10000, sellingPrice |-> 12500]
  /\ profitMargin = 25

----------------------------------------------------------------------------
(***************************************************************************)
(* Parent candidates of the create-category form (ManageSpec).             *)
(***************************************************************************)
\* The positions of the nodes of a forest: <<i>> is the i-th top-level node,
\* pos \o <<j>> the j-th child of the node at pos.
RECURSIVE Positions(_)
Positions(cats) ==
  UNION {{<<i>>} \cup {<<i>> \o pos : pos \in Positions(cats[i].subCategories)} :
           i \in DOMAIN cats}

RECURSIVE NodeAt(_, _)
NodeAt(cats, pos) ==
  IF Len(pos) = 1 THEN cats[pos[1]]
  ELSE NodeAt(cats[pos[1]].subCategories, Tail(pos))

\* p comes before q in document order: p is an ancestor of q, or p branches
\* off to the left of q.
DocumentBefore(p, q) ==
  /\ p # q
  /\ \/ /\ Len(p) < Len(q)
        /\ \A i \in 1..Len(p) : p[i] = q[i]
     \/ \E i \in 1..Len(p) :
          /\ i <= Len(q)
          /\ p[i] < q[i]
          /\ \A j \in 1..(i - 1) : p[j] = q[j]

\* The nodes of the forest whose level field is level, in document order.
NodesAtLevel(cats, level) ==
  LET at == {pos \in Positions(cats) : NodeAt(cats, pos).level = level}
      rank(pos) == 1 + Cardinality({q \in at : DocumentBefore(q, pos)})
  IN [k \in 1..Cardinality(at) |->
        NodeAt(cats, CHOOSE pos \in at : rank(pos) = k)]

\* C20: for the loaded tree and every target level, both flatten helpers
\* return exactly the nodes whose level field is the target, each once and
\* in document order, whatever the depth of the nodes; the parent
\* candidates for a new category of level L are the nodes of level L - 1,
\* and none for L = 1.
C20_Flatten ==
  /\ \A level \in 0..MaxLevel :
       /\ flatten(manageCategories, level) = NodesAtLevel(manageCategories, level)
       /\ flattenCategories(manageCategories, level)
            = NodesAtLevel(manageCategories, level)
  /\ \A level \in 1..MaxLevel :
       getAvailableParentCategories(level) =
         IF level = 1 THEN <<>> ELSE NodesAtLevel(manageCategories, level - 1)
  /\ getAvailableParentCategoriesOfPage =
       IF selectedLevel = 1 THEN <<>>
       ELSE NodesAtLevel(manageCategories, selectedLevel - 1)

\* The form offers two parent candidates, one of them a nested node whose
\* level field is not its depth.
C20_Witness ==
  /\ selectedLevel > 1
  /\ Len(getAvailableParentCategories(selectedLevel)) = 2
  /\ \E pos \in Positions(manageCategories) :
       /\ Len(pos) > 1
       /\ NodeAt(manageCategories, pos).level = selectedLevel - 1
       /\ NodeAt(manageCategories, pos).level # Len(pos)

----------------------------------------------------------------------------
(***************************************************************************)
(* Requests issued together on page load (LoadSpec).                       *)
(***************************************************************************)
\* What a piece of state holds once its request has settled: the data of
\* the response, or what it held before when the request failed.
Applied(outcome, before) == IF outcome[1].ok THEN outcome[1].data ELSE before

ReportFetches == {"fetchOverview", "fetchDailyReport", "fetchMonthlyReport"}

\* The piece of state a fetch function of the report page writes.
PieceOf(f) ==
  CASE f = "fetchOverview" -> overview
    [] f = "fetchDailyReport" -> dailyReport
    [] f = "fetchMonthlyReport" -> monthlyReport

PendingCount(f) ==
  Cardinality({i \in DOMAIN reportBatches : reportBatches[i][f] = Pending})

\* The batches the page knows of: those in flight and the one settled last.
KnownBatches == Range(reportBatches) \cup Range(reportSettled)

ProductsPageLoaded ==
  pageFetch.fetchProducts # Pending /\ pageFetch.fetchCategories # Pending

\* C21: the fetches issued together on page load write only their own piece
\* of state.  On the products page, once both requests of the mount effect
\* have settled, products, categories and loading are what the two outcomes
\* determine, whichever settled first.  On the sales-report page a report
\* changes only in a step in which its own request settles, every report of
\* a batch whose request succeeded holds the data of that response, and
\* loading is false once the batch has settled.
C21_OrderIndependent ==
  /\ [](ProductsPageLoaded =>
          /\ products = Applied(pageFetch.fetchProducts, <<>>)
          /\ categories = Applied(pageFetch.fetchCategories, <<>>)
          /\ ~productsLoading)
  /\ [](\A batch \in KnownBatches : \A f \in ReportFetches :
          (batch[f] # Pending /\ batch[f][1].ok) =>
             PieceOf(f) = <<batch[f][1].data>>)
  /\ [](reportSettled # <<>> => ~reportLoading)
  /\ [][\A f \in ReportFetches :
          PieceOf(f)' # PieceOf(f) => PendingCount(f)' < PendingCount(f)]_vars
  /\ [][/\ products' # products => pageFetch.fetchProducts = Pending
        /\ categories' # categories => pageFetch.fetchCategories = Pending]_vars

\* Both pages have loaded and every response has been applied: two on the
\* products page, three on the report page.
C21_Witness ==
  /\ ProductsPageLoaded
  /\ products # <<>>
  /\ categories # <<>>
  /\ reportSettled # <<>>
  /\ \A f \in ReportFetches : reportSettled[1][f][1].ok
  /\ overview # <<>> /\ dailyReport # <<>> /\ monthlyReport # <<>>

\* Batch i after a step in which one of its requests settles: it is still
\* in flight, or it is the batch that has just settled.
BatchAfter(i) ==
  IF Len(reportBatches') < Len(reportBatches) THEN reportSettled'[1]
  ELSE reportBatches'[i]

\* A request of the report page fails in this step.
ReportFetchFails(i, f) ==
  reportBatches[i][f] = Pending /\ BatchAfter(i)[f] = Rejected

SomeFailed(batch) == \E f \in ReportFetches : batch[f] = Rejected

\* C22: a failing page-load request changes no products, categories or
\* report and leaves the other requests issued with it as they are, in
\* flight or settled; the response of a request that succeeds next to a
\* failed one is applied to its own piece of state; and after a failure the
\* loading flag of the page still becomes false.
C22_FailureIsolated ==
  /\ [][(pageFetch.fetchProducts = Pending /\ pageFetch'.fetchProducts = Rejected)
          => /\ UNCHANGED <<products, categories>>
             /\ pageFetch'.fetchCategories = pageFetch.fetchCategories]_vars
  /\ [][(pageFetch.fetchCategories = Pending /\ pageFetch'.fetchCategories = Rejected)
          => /\ UNCHANGED <<products, categories>>
             /\ pageFetch'.fetchProducts = pageFetch.fetchProducts]_vars
  /\ [][\A i \in DOMAIN reportBatches : \A f \in ReportFetches :
          ReportFetchFails(i, f)
            => /\ UNCHANGED <<overview, dailyReport, monthlyReport>>
               /\ \A g \in ReportFetches \ {f} :
                    BatchAfter(i)[g] = reportBatches[i][g]]_vars
  /\ []((pageFetch.fetchProducts = Rejected /\ pageFetch.fetchCategories # Pending)
          => categories = Applied(pageFetch.fetchCategories, <<>>))
  /\ []((pageFetch.fetchCategories = Rejected /\ pageFetch.fetchProducts # Pending)
          => products = Applied(pageFetch.fetchProducts, <<>>))
  /\ [](\A batch \in KnownBatches :
          SomeFailed(batch) =>
            \A f \in ReportFetches :
               (batch[f] # Pending /\ batch[f][1].ok) =>
                  PieceOf(f) = <<batch[f][1].data>>)
  /\ (pageFetch.fetchProducts = Rejected \/ pageFetch.fetchCategories = Rejected)
       ~> ~productsLoading
  /\ (\E i \in DOMAIN reportBatches : SomeFailed(reportBatches[i]))
       ~> ~reportLoading

\* On the products page the products request has failed and the categories
\* are loaded; on the report page a batch has settled with a failed daily
\* report and the other two reports applied.  Neither page is loading.
C22_Witness ==
  /\ pageFetch.fetchProducts = Rejected
  /\ pageFetch.fetchCategories # Pending
  /\ categories # <<>>
  /\ ~productsLoading
  /\ reportSettled # <<>>
  /\ reportSettled[1].fetchDailyReport = Rejected
  /\ overview # <<>> /\ monthlyReport # <<>> /\ dailyReport = <<>>
  /\ ~reportLoading

----------------------------------------------------------------------------
----------------------------------------------------------------------------
(***************************************************************************)
(* Requests of the create-category form (CategoryFormSpec).                *)
(***************************************************************************)
\* C23: every create-category request in flight respects the level
\* invariant: with level 1 it carries no parentId, with level 2 or 3 it
\* carries the id of a loaded category whose level is one less.
C23_LevelInvariant ==
  \A request \in Range(createCategoryRequest) :
     IF request.level = 1
     THEN request.parentId = Undefined
     ELSE \E level \in 1..MaxLevel :
            \E c \in Range(flatten(manageCategories, level)) :
               c.id = request.parentId /\ level = request.level - 1

----------------------------------------------------------------------------
(***************************************************************************)
(* Axis options of the new-product form (FormSpec).                        *)
(***************************************************************************)
NoDuplicates(options) ==
  \A i, j \in DOMAIN options : options[i] = options[j] => i = j

\* The value is empty, or it is in the list already.
NotAddable(options, value) == ~Truthy(value) \/ ArrayIncludes(options, value)

\* C24: no option list holds a value twice or an empty value, and adding a
\* value that is empty or already in the list of its axis changes nothing
\* of the form: no option list and no variant.
C24_DuplicateRejected ==
  /\ NoDuplicates(colorOptions) /\ NoDuplicates(ramOptions)
  /\ NoDuplicates(storageOptions)
  /\ \A options \in {colorOptions, ramOptions, storageOptions} :
       \A i \in DOMAIN options : Truthy(options[i])
  /\ \A color \in ColorInputs :
       NotAddable(colorOptions, color) =>
         ~ENABLED (addColorOption(color) /\ formVars' # formVars)
  /\ \A ram \in RamInputs :
       NotAddable(ramOptions, ram) =>
         ~ENABLED (addRamOption(ram) /\ formVars' # formVars)
  /\ \A storage \in StorageInputs :
       NotAddable(storageOptions, storage) =>
         ~ENABLED (addStorageOption(storage) /\ formVars' # formVars)

\* Every axis holds all the values the form was given, and a variant was
\* edited: every further add is the add of a value that is present.
C24_Witness ==
  /\ Len(colorOptions) = 2 /\ Len(ramOptions) = 2 /\ Len(storageOptions) = 1
  /\ lastHandler.op = "edit"
  /\ \A color \in ColorInputs : NotAddable(colorOptions, color)

----------------------------------------------------------------------------
(***************************************************************************)
(* The cart between two renders (CartRenderSpec).                          *)
(***************************************************************************)
\* C25: the cart holds at most one line per productId.
C25_OneLinePerProduct ==
  \A i, j \in DOMAIN cart : cart[i].productId = cart[j].productId => i = j

----------------------------------------------------------------------------
(***************************************************************************)
(* Variant ids (VariantIdSpec).                                            *)
(***************************************************************************)
\* C26: when no axis list holds a value twice, the ids of the variants are
\* pairwise distinct, so that updateVariant with the id of a variant changes
\* that variant only.
C26_UniqueVariantIds ==
  (NoDuplicates(colorOptions) /\ NoDuplicates(ramOptions)
     /\ NoDuplicates(storageOptions))
  => /\ \A i, j \in DOMAIN variants : variants[i].id = variants[j].id => i = j
     /\ \A i \in DOMAIN variants :
          LET updated == updateVariantList(variants, variants[i].id, "stock", 5)
          IN \A j \in DOMAIN variants : j # i => updated[j] = variants[j]

----------------------------------------------------------------------------
(***************************************************************************)
(* Cart edits during a sale (SaleSpec).                                    *)
(***************************************************************************)
\* C27: in the step that clears the cart after a successful sale, every
\* line of the cart that is cleared was sent in the create-sale request with
\* the quantity it has: no line that was added and no quantity that was
\* changed while the requests were pending is discarded without having been
\* sold.
C27_NoEditLost ==
  [][CartCleared =>
       \A line \in Range(saleItems(cart)) : line \in Range(saleData[1].items)]_vars

\* C28: every product of the list the sale page shows can be added to an
\* empty cart: addToCart on it gives the cart of one line of quantity 1.
C28_ListedIsAddable ==
  \A product \in Range(saleFilteredProducts) :
     LET added == addToCartList(<<>>, product)
     IN /\ Len(added) = 1
        /\ added[1].productId = IdOf(product)
        /\ added[1].quantity = 1

----------------------------------------------------------------------------
(***************************************************************************)
(* Specification rows of the product forms (SpecificationsSpec).           *)
(***************************************************************************)
\* C29: the specifications value of the form is the map built from the
\* current rows that have a key and a value; the key of a removed row is
\* not in it.
C29_SpecificationsInSync ==
  specificationsValue = specsObject(specifications)

====
